---- MODULE Spec2Model ----
(***************************************************************************)
(* Particle simulation core (Particles.params / Particles.buffers /        *)
(* Particles.graph / Particles.index): options merge and validation, the   *)
(* buffer bundle, the pass graph and the ParticlesSim facade.              *)
(*                                                                         *)
(* Numbers are fixed point: time in ticks of 1/60 s (the default dtMax),   *)
(* dx in 1/1000, picFlip / nu / friction in 1/100.  A JavaScript object is *)
(* a function from property names to values; a property holding the value  *)
(* undefined maps to Undefined, an absent property is outside the DOMAIN.  *)
(***************************************************************************)
EXTENDS Integers, Sequences, FiniteSets, TLC

VARIABLES
    heap,         \* options objects by reference; sim, allocator and graph share one
    bundle,       \* ParticlesBufferBundle: maxParticles, alive, life[]
    graph,        \* ParticlesGraph: opts reference, backend, xpbd, contacts
    emitAccumulator,
    lastStep,     \* stats.dt as the last update() set it: the sub-tick timestep
    lastCall,     \* what the last facade call was and how it ended
    ranPasses,    \* names of the backend passes run by the last sub-tick
    subTicks,     \* sub-ticks the last update() ran
    simulated,    \* sum of the timesteps handed to the stages by the last update()
    lastDt,       \* the dt argument of the last update()
    stageLog,     \* stages and passes the last update() ran, in order
    pTarget,      \* mergeOptions/validateOptions harness: the target object
    pPatch,       \* ... the patch
    pOrig,        \* ... the target before the first merge
    pFirst,       \* ... the target after the first merge
    pMerges,      \* ... number of merges applied
    pVerdict,     \* ... outcome of validateOptions on the target
    pName,        \* ... the preset name of the last applyPreset call
    pOutcome,     \* ... how the last applyPreset call ended
    contacts,     \* SdfColliders.resolve harness: the resolver's collider list
    particles,    \* ... position / velocity arrays and alive
    atEntry,      \* ... the arrays as they were when the last resolve() started
    resolves,     \* ... number of resolve() calls made
    gOptions,     \* GPU facade: the options object of the sim
    gPasses,      \* ... graph.passes, each a name and the label it is issued under
    issued,       \* ... labels handed to renderer.compute by the last update()
    gStats,       \* ... stats as the last update() left them
    gCall,        \* ... what the last call on the GPU facade was
    device,       \* GPUDevice: free bytes and the buffers alive on it
    allocators,   \* buffer allocators constructed so far, each with its bundle
    allocOutcome, \* how the last allocator call ended
    gpuKernel,    \* P2G kernels: the backend mode and the buffer the name Mass denotes
    gpuParticles, \* ... Pos, Vel and Mass storage buffers of the particles
    gpuGrid,      \* ... U, V, W and Mass storage buffers of the grid (x lanes)
    gpuPass,      \* ... index in the pass list of the dispatch in flight
    gpuProgress,  \* ... per invocation, the statements it has completed
    gpuExecutes,  \* ... number of execute() calls completed
    lBundle,      \* integrateLifetime harness: the bundle with all its arrays
    lEntry,       \* ... the bundle as it was when the last call started
    lDt,          \* ... the dt of the last call
    lCalls,       \* ... number of integrateLifetime calls made
    g2pIn,        \* velocity blend harness: the kernel and what it reads
    g2pOut,       \* ... the velocity it writes back, << >> before it ran
    oHeap,        \* options objects by reference: address -> object
    oRoots,       \* ... the objects createDefaultOptions() has returned, in order
    oTarget,      \* ... the one object the merges are applied to, "" before the first
    oWritten,     \* ... addresses of the objects a merge has written to
    oCalls,       \* ... number of mergeOptions / applyPreset calls made
    features,     \* Convas.features: feature id -> the attach call that registered it
    fCalls,       \* ... every feature.attach(this) invoked so far, with its outcome
    fOps          \* ... number of attachFeature / detachFeature / dispose calls

simVars == <<heap, bundle, graph, emitAccumulator, lastStep, lastCall,
             ranPasses, subTicks, simulated, lastDt, stageLog>>
paramVars == <<pTarget, pPatch, pOrig, pFirst, pMerges, pVerdict, pName, pOutcome>>
resolveVars == <<contacts, particles, atEntry, resolves>>
graphVars == <<gOptions, gPasses, issued, gStats, gCall>>
allocVars == <<device, allocators, allocOutcome>>
kernelVars == <<gpuKernel, gpuParticles, gpuGrid, gpuPass, gpuProgress, gpuExecutes>>
gpuVars == <<graphVars, allocVars, kernelVars>>
lifeVars == <<lBundle, lEntry, lDt, lCalls>>
blendVars == <<g2pIn, g2pOut>>
aliasVars == <<oHeap, oRoots, oTarget, oWritten, oCalls>>
featVars == <<features, fCalls, fOps>>
extVars == <<lifeVars, blendVars, aliasVars, featVars>>
vars == <<heap, bundle, graph, emitAccumulator, lastStep, lastCall,
          ranPasses, subTicks, simulated, lastDt, stageLog,
          pTarget, pPatch, pOrig, pFirst, pMerges, pVerdict, pName, pOutcome,
          contacts, particles, atEntry, resolves,
          gOptions, gPasses, issued, gStats, gCall,
          device, allocators, allocOutcome,
          gpuKernel, gpuParticles, gpuGrid, gpuPass, gpuProgress, gpuExecutes,
          lBundle, lEntry, lDt, lCalls,
          g2pIn, g2pOut,
          oHeap, oRoots, oTarget, oWritten, oCalls,
          features, fCalls, fOps>>

----------------------------------------------------------------------------
(* JavaScript value semantics used by the code *)

\* the value undefined (outside every numeric range of the model)
Undefined == -999999

\* a ?? b
Nullish(a, b) == IF a = Undefined THEN b ELSE a

\* obj.key : undefined when the property is absent
Get(obj, key) == IF key \in DOMAIN obj THEN obj[key] ELSE Undefined

\* typeof v === 'number'
IsNumber(v) == v # Undefined

\* relational operators: any comparison with undefined (NaN) is false
Lt(a, b) == a # Undefined /\ b # Undefined /\ a < b
Le(a, b) == a # Undefined /\ b # Undefined /\ a <= b
Gt(a, b) == a # Undefined /\ b # Undefined /\ a > b
Ge(a, b) == a # Undefined /\ b # Undefined /\ a >= b

Min(a, b) == IF a <= b THEN a ELSE b
Max(a, b) == IF a >= b THEN a ELSE b

\* Object.assign(target, source): every own property of source, also one
\* whose value is undefined, is written to target
ObjectAssign(target, source) ==
    [k \in DOMAIN target \cup DOMAIN source |->
        IF k \in DOMAIN source THEN source[k] ELSE target[k]]

----------------------------------------------------------------------------
(* Particles.params.ts *)

TicksPerSecond == 60
Percent == 100
NuLimit == 50

DEFAULT_COUNTS == [maxParticles |-> 200000, particlesPerTile |-> 64]
DEFAULT_GRID == [dx |-> 20, res |-> <<96, 96, 96>>]
\* a default time section whose substeps is 0
DEFAULT_TIME_NoSubsteps == [substeps |-> 0, cfl |-> 4, dtMax |-> TicksPerSecond \div 60]
DEFAULT_TIME == [substeps |-> 2, cfl |-> 4, dtMax |-> TicksPerSecond \div 60]
DEFAULT_GRAVITY == <<0, -981, 0>>
DEFAULT_WIND == <<0, 0, 0>>
DEFAULT_FLIP == [picFlip |-> 5, pressureIters |-> 60, vorticity |-> 0,
                 viscosity |-> 0, surface |-> 0, cohesion |-> 0]
DEFAULT_MPM == [E |-> 50000, nu |-> 33, yield |-> 0, hardening |-> 0,
                frictionDeg |-> 20, cohesion |-> 0, apicBlend |-> 50]
DEFAULT_XPBD == [iters |-> 4, compliance |-> [contact |-> 10, volume |-> 1],
                 friction |-> 40, restitution |-> 0, shock |-> 0]
DEFAULT_EMIT == [rate |-> 5000, radius |-> 20, speed |-> 100, jitter |-> 10]
DEFAULT_RENDER == [size |-> 25, opacity |-> 100]

DEFAULT_OPTIONS ==
    [mode |-> "flip", counts |-> DEFAULT_COUNTS, grid |-> DEFAULT_GRID,
     time |-> DEFAULT_TIME, gravity |-> DEFAULT_GRAVITY, wind |-> DEFAULT_WIND,
     flip |-> DEFAULT_FLIP, mpm |-> DEFAULT_MPM, xpbd |-> DEFAULT_XPBD,
     emit |-> DEFAULT_EMIT, render |-> DEFAULT_RENDER, colliders |-> << >>]

createDefaultOptions ==
    [mode |-> DEFAULT_OPTIONS.mode,
     counts |-> DEFAULT_OPTIONS.counts,
     grid |-> DEFAULT_OPTIONS.grid,
     time |-> DEFAULT_OPTIONS.time,
     gravity |-> DEFAULT_OPTIONS.gravity,
     wind |-> DEFAULT_OPTIONS.wind,
     flip |-> DEFAULT_OPTIONS.flip,
     mpm |-> DEFAULT_OPTIONS.mpm,
     xpbd |-> [iters |-> DEFAULT_OPTIONS.xpbd.iters,
               compliance |-> DEFAULT_OPTIONS.xpbd.compliance,
               friction |-> DEFAULT_OPTIONS.xpbd.friction,
               restitution |-> DEFAULT_OPTIONS.xpbd.restitution,
               shock |-> DEFAULT_OPTIONS.xpbd.shock],
     emit |-> DEFAULT_OPTIONS.emit,
     render |-> DEFAULT_OPTIONS.render,
     colliders |-> << >>]

\* the xpbd branch of mergeOptions: guarded, field by field
mergeXpbd(txpbd, pxpbd) ==
    LET t1 == [txpbd EXCEPT !.iters = Nullish(Get(pxpbd, "iters"), txpbd.iters)]
        t2 == IF "compliance" \in DOMAIN pxpbd
              THEN LET contact == Get(pxpbd.compliance, "contact")
                       volume == Get(pxpbd.compliance, "volume")
                       c0 == IF "compliance" \in DOMAIN t1 THEN t1.compliance
                             ELSE [contact |-> 0, volume |-> 0]
                       c1 == IF IsNumber(contact)
                             THEN [c0 EXCEPT !.contact = contact] ELSE c0
                       c2 == IF IsNumber(volume)
                             THEN [c1 EXCEPT !.volume = volume] ELSE c1
                   IN  ObjectAssign(t1, [compliance |-> c2])
              ELSE t1
        t3 == IF IsNumber(Get(pxpbd, "friction"))
              THEN [t2 EXCEPT !.friction = pxpbd.friction] ELSE t2
        t4 == IF IsNumber(Get(pxpbd, "restitution"))
              THEN [t3 EXCEPT !.restitution = pxpbd.restitution] ELSE t3
        t5 == IF IsNumber(Get(pxpbd, "shock"))
              THEN [t4 EXCEPT !.shock = pxpbd.shock] ELSE t4
    IN  t5

\* patch.colliders.map((c) => ({ ...c, params: { ...c.params } }))
copyColliders(list) ==
    [i \in 1..Len(list) |-> ObjectAssign(list[i], [params |-> list[i].params])]

\* colliders merge that appends to the list instead of replacing it wholesale
mergeCollidersAppend(tcolliders, pcolliders) == tcolliders \o copyColliders(pcolliders)

mergeColliders(tcolliders, pcolliders) == copyColliders(pcolliders)

\* a section merged with Object.assign when the patch carries it
AssignSection(target, patch, key) ==
    IF key \in DOMAIN patch THEN ObjectAssign(target[key], patch[key]) ELSE target[key]

\* a section replaced wholesale when the patch carries it
ReplaceSection(target, patch, key) ==
    IF key \in DOMAIN patch THEN patch[key] ELSE target[key]

mergeOptions(target, patch) ==
    [mode |-> ReplaceSection(target, patch, "mode"),
     counts |-> AssignSection(target, patch, "counts"),
     grid |-> AssignSection(target, patch, "grid"),
     time |-> AssignSection(target, patch, "time"),
     gravity |-> ReplaceSection(target, patch, "gravity"),
     wind |-> ReplaceSection(target, patch, "wind"),
     flip |-> AssignSection(target, patch, "flip"),
     mpm |-> AssignSection(target, patch, "mpm"),
     xpbd |-> IF "xpbd" \in DOMAIN patch
              THEN mergeXpbd(target.xpbd, patch.xpbd) ELSE target.xpbd,
     emit |-> AssignSection(target, patch, "emit"),
     render |-> AssignSection(target, patch, "render"),
     colliders |-> IF "colliders" \in DOMAIN patch
                   THEN mergeColliders(target.colliders, patch.colliders)
                   ELSE target.colliders]

\* the first failing check of validateOptions, "ok" when none throws
validateOptions(opts) ==
    LET res == IF "res" \in DOMAIN opts.grid THEN opts.grid.res ELSE <<0, 0, 0>>
        gx == res[1]
        gy == res[2]
        gz == res[3]
        substeps == Nullish(Get(opts.time, "substeps"), 1)
        dtMax == Nullish(Get(opts.time, "dtMax"), 0)
        pressureIters == Nullish(Get(opts.flip, "pressureIters"), 0)
        picFlip == Nullish(Get(opts.flip, "picFlip"), 0)
        nu == Nullish(Get(opts.mpm, "nu"), 0)
    IN  IF Le(Get(opts.counts, "maxParticles"), 0) THEN "maxParticles must be > 0"
        ELSE IF Nullish(Get(opts.grid, "dx"), 0) <= 0 THEN "grid.dx must be > 0"
        ELSE IF gx * gy * gz <= 0 THEN "grid.res must be positive"
        ELSE IF substeps < 1 THEN "time.substeps must be >= 1"
        ELSE IF dtMax <= 0 THEN "time.dtMax must be > 0"
        ELSE IF opts.mode = "flip" /\ pressureIters < 1
             THEN "flip.pressureIters must be >= 1"
        ELSE IF opts.mode = "flip" /\ (picFlip < 0 \/ picFlip > Percent)
             THEN "flip.picFlip must be within [0,1]"
        ELSE IF opts.mode = "mpm" /\ Nullish(Get(opts.mpm, "E"), 0) <= 0
             THEN "mpm.E must be > 0"
        ELSE IF opts.mode = "mpm" /\ (nu < 0 \/ nu >= NuLimit)
             THEN "mpm.nu must be within [0,0.5)"
        ELSE "ok"

\* the preset table; compliance in 1e-7, render.size in 1/1000, the other
\* fractions in 1/100.  String- and boolean-valued hints (model, color,
\* pressureTol) take no part in merge conflicts or validation and are left out.
PRESETS ==
    [water_flip |->
        [mode |-> "flip",
         flip |-> [picFlip |-> 5, pressureIters |-> 64, surface |-> 20,
                   viscosity |-> 1],
         render |-> [size |-> 20],
         xpbd |-> [compliance |-> [contact |-> 5], friction |-> 0,
                   restitution |-> 10]],
     sheet_flip |->
        [mode |-> "flip",
         flip |-> [picFlip |-> 0, pressureIters |-> 48, vorticity |-> 200],
         render |-> [size |-> 18]],
     jelly_mpm |->
        [mode |-> "mpm",
         mpm |-> [E |-> 6000, nu |-> 30, apicBlend |-> 80],
         xpbd |-> [compliance |-> [volume |-> 10]],
         render |-> [size |-> 28]],
     sand_mpm |->
        [mode |-> "mpm",
         mpm |-> [E |-> 45000, nu |-> 20, yield |-> 90000, hardening |-> 200,
                  frictionDeg |-> 35],
         xpbd |-> [friction |-> 60, compliance |-> [contact |-> 20]],
         render |-> [size |-> 24]],
     slime_mpm |->
        [mode |-> "mpm",
         mpm |-> [E |-> 1200, nu |-> 47, yield |-> 2000, hardening |-> 50,
                  frictionDeg |-> 10],
         xpbd |-> [friction |-> 20, compliance |-> [contact |-> 100]],
         render |-> [size |-> 30]]]

\* applyPreset that merges everything of the preset but its mode
applyPresetKeepMode(opts, name) ==
    IF name \in DOMAIN PRESETS
    THEN [value |-> [mergeOptions(opts, PRESETS[name]) EXCEPT !.mode = opts.mode],
          outcome |-> "returned"]
    ELSE [value |-> opts, outcome |-> "returned"]

\* applyPreset(opts, name): PRESETS[name] is undefined for an unregistered
\* name, and mergeOptions returns the target untouched for a missing patch
applyPreset(opts, name) ==
    IF name \in DOMAIN PRESETS
    THEN [value |-> mergeOptions(opts, PRESETS[name]), outcome |-> "returned"]
    ELSE [value |-> opts, outcome |-> "returned"]

----------------------------------------------------------------------------
(* Particles.buffers.ts *)

\* ParticlesBufferAllocator.allocate: arrays sized from counts.maxParticles
allocate(opts) ==
    LET max == opts.counts.maxParticles
    IN  [maxParticles |-> max, alive |-> 0, life |-> [i \in 0..(max - 1) |-> 0]]

----------------------------------------------------------------------------
(* Particles.contacts.ts (host-array variant) and Particles.backends.ts *)

DefaultThickness == 10
PlaneThickness == 15

\* SdfColliders constructor: the supported colliders of opts, or one ground plane
SdfColliders(opts) ==
    LET kept == SelectSeq(opts.colliders,
                          LAMBDA c : c.kind \in {"plane", "sphere", "box"})
        built == [i \in 1..Len(kept) |->
                    [kind |-> kept[i].kind, params |-> kept[i].params,
                     friction |-> Nullish(Get(kept[i], "friction"),
                                          Nullish(Get(opts.xpbd, "friction"), 0)),
                     restitution |-> Nullish(Get(kept[i], "restitution"),
                                             Nullish(Get(opts.xpbd, "restitution"), 5)),
                     thickness |-> Nullish(Get(kept[i], "thickness"), DefaultThickness)]]
    IN  IF Len(built) = 0
        THEN << [kind |-> "plane", params |-> [normal |-> <<0, Percent, 0>>, offset |-> 0],
                 friction |-> Nullish(Get(opts.xpbd, "friction"), 20),
                 restitution |-> Nullish(Get(opts.xpbd, "restitution"), 5),
                 thickness |-> PlaneThickness] >>
        ELSE built

\* Numbers of resolve(): binary fixed point.  One is 1.0 on the grid of the
\* number type (double); a Float32Array element keeps fewer bits, the
\* multiples of FloatGrain, and a store rounds to the nearest of them.
One == 4096
FloatGrain == 4

\* a / b rounded to the nearest integer, b > 0
RDiv(a, b) == (2 * a + b) \div (2 * b)

Mul(a, b) == RDiv(a * b, One)
Div(a, b) == IF b > 0 THEN RDiv(a * One, b) ELSE -RDiv(a * One, -b)

\* the number nearest to a literal given in 1/1000, or in 1/100
FromMilli(m) == RDiv(m * One, 1000)
FromPercent(p) == RDiv(p * One, Percent)

\* the value a Float32Array element holds after x is stored (ties to even)
Fround(x) ==
    LET lo == (x \div FloatGrain) * FloatGrain
        r == x - lo
    IN  IF 2 * r < FloatGrain THEN lo
        ELSE IF 2 * r > FloatGrain THEN lo + FloatGrain
        ELSE IF (lo \div FloatGrain) % 2 = 0 THEN lo
        ELSE lo + FloatGrain

SqrtLimit == 32768

\* Math.sqrt on raw grid values: the r with r*r nearest to x
RECURSIVE SqrtBetween(_, _, _)
SqrtBetween(x, lo, hi) ==
    IF hi - lo <= 1
    THEN (IF x - lo * lo <= hi * hi - x THEN lo ELSE hi)
    ELSE LET mid == (lo + hi) \div 2
         IN  IF mid * mid <= x THEN SqrtBetween(x, mid, hi)
             ELSE SqrtBetween(x, lo, mid)

Sqrt(x) == SqrtBetween(x, 0, SqrtLimit)

\* 1e-5 on the grid
Epsilon == 0

Vec(f(_), v) == <<f(v[1]), f(v[2]), f(v[3])>>
Dot(a, b) == Mul(a[1], b[1]) + Mul(a[2], b[2]) + Mul(a[3], b[3])
Scale(a, k) == <<Mul(a[1], k), Mul(a[2], k), Mul(a[3], k)>>
Sub(a, b) == <<a[1] - b[1], a[2] - b[2], a[3] - b[3]>>
Add(a, b) == <<a[1] + b[1], a[2] + b[2], a[3] + b[3]>>

clampToRange(value, min, max) == Min(Max(value, min), max)

\* the plane branch of resolve() for one particle s = [p, v]
resolvePlane(s, c) ==
    LET n == Vec(FromPercent, c.params.normal)
        offset == FromMilli(Nullish(Get(c.params, "offset"), 0))
        friction == FromPercent(c.friction)
        restitution == FromPercent(c.restitution)
        dist == Dot(s.p, n) + offset - FromMilli(c.thickness)
        vn == Dot(s.v, n)
        vt == Sub(s.v, Scale(n, vn))
    IN  IF dist < 0
        THEN [p |-> Sub(s.p, Scale(n, dist)),
              v |-> Sub(Scale(vt, One - friction),
                        Scale(Scale(n, vn), One + restitution))]
        ELSE s

\* |d| for a difference vector d of raw grid values
Length(d) == Sqrt(d[1] * d[1] + d[2] * d[2] + d[3] * d[3])

\* the contact response the sphere and box branches share once the normal n
\* is known: the position goes to base + n * depth, the normal velocity is
\* reflected with the restitution and the result is scaled by 1 - friction
pushOut(s, base, n, depth, friction, restitution) ==
    [p |-> Add(base, Scale(n, depth)),
     v |-> Scale(Sub(s.v, Scale(Scale(n, Dot(s.v, n)), One + restitution)),
                 One - friction)]

\* the sphere branch from dist on: d = p - center, reach = radius + thickness
sphereContact(s, c, d, dist, reach) ==
    IF reach - dist > 0 /\ dist > Epsilon
    THEN pushOut(s, s.p, <<Div(d[1], dist), Div(d[2], dist), Div(d[3], dist)>>,
                 reach - dist, FromPercent(c.friction) \div 2,
                 FromPercent(c.restitution))
    ELSE s

\* the sphere branch
resolveSphere(s, c) ==
    LET center == Vec(FromMilli, c.params.center)
        radius == FromMilli(Nullish(Get(c.params, "radius"), 1000))
    IN  sphereContact(s, c, Sub(s.p, center), Length(Sub(s.p, center)),
                      radius + FromMilli(c.thickness))

\* the box branch from dist on: next is p clamped into the box, d = p - next
boxContact(s, c, next, d, dist) ==
    IF dist > 0 /\ dist <= FromMilli(c.thickness)
    THEN pushOut(s, next, <<Div(d[1], dist), Div(d[2], dist), Div(d[3], dist)>>,
                 FromMilli(c.thickness), FromPercent(c.friction),
                 FromPercent(c.restitution))
    ELSE s

\* the clamped point of the box branch
boxNext(p, min, max) ==
    <<clampToRange(p[1], min[1], max[1]),
      clampToRange(p[2], min[2], max[2]),
      clampToRange(p[3], min[3], max[3])>>

\* the box branch
resolveBox(s, c) ==
    LET next == boxNext(s.p, Vec(FromMilli, c.params.min),
                        Vec(FromMilli, c.params.max))
    IN  boxContact(s, c, next, Sub(s.p, next), Length(Sub(s.p, next)))

resolveCollider(s, c) ==
    IF c.kind = "plane" THEN resolvePlane(s, c)
    ELSE IF c.kind = "sphere" THEN resolveSphere(s, c)
    ELSE IF c.kind = "box" THEN resolveBox(s, c)
    ELSE s

\* for (const collider of this.colliders) { ... }
RECURSIVE resolveColliders(_, _, _)
resolveColliders(s, colliders, k) ==
    IF k > Len(colliders) THEN s
    ELSE resolveColliders(resolveCollider(s, colliders[k]), colliders, k + 1)

\* the body of resolve()'s particle loop for slot i
resolveSlot(colliders, arrays, i) ==
    resolveColliders([p |-> arrays.position[i], v |-> arrays.velocity[i]],
                     colliders, 1)

\* SdfColliders.resolve(position, velocity, alive) on arrays indexed by
\* particle: slots below alive are resolved and stored back as float32
resolve(colliders, arrays, alive) ==
    [position |-> [i \in DOMAIN arrays.position |->
                      IF i < alive
                      THEN Vec(Fround, resolveSlot(colliders, arrays, i).p)
                      ELSE arrays.position[i]],
     velocity |-> [i \in DOMAIN arrays.position |->
                      IF i < alive
                      THEN Vec(Fround, resolveSlot(colliders, arrays, i).v)
                      ELSE arrays.velocity[i]]]

\* new FlipPass().passes, by name
FlipPass ==
    << "gridClearNode", "p2gApicNode", "gridForcesNode", "pressureSolveNode",
       "gridProjectNode", "g2pApicNode", "reseedCompactNode", "collideSdfGridNode" >>

\* new MpmPass().passes, by name
MpmPass ==
    << "gridClearNode", "mpmP2gNode", "mpmPlasticityNode", "gridUpdateCflNode",
       "mpmG2pApicNode", "collideSdfGridNode" >>

----------------------------------------------------------------------------
(* Particles.graph.ts *)

\* the reference held in ParticlesSim.options (a readonly field)
OptionsRef == "o1"

NoContacts == << >>

\* opts.xpbd.iters && opts.xpbd.iters > 0
ItersPositive(opts) ==
    LET iters == Get(opts.xpbd, "iters") IN iters # Undefined /\ iters > 0

\* ParticlesGraph constructor; opts is kept by reference
newParticlesGraph(h, optsRef) ==
    [opts |-> optsRef,
     backend |-> IF h[optsRef].mode = "flip" THEN FlipPass ELSE MpmPass,
     contacts |-> IF ItersPositive(h[optsRef]) THEN SdfColliders(h[optsRef])
                  ELSE NoContacts,
     xpbd |-> ItersPositive(h[optsRef])]

\* ParticlesGraph.setOptions(opts), on the heap h as it is when the call runs
setOptions(g, h, optsRef) ==
    LET modeChanged == h[optsRef].mode # h[g.opts].mode
        backend == IF modeChanged
                   THEN (IF h[optsRef].mode = "flip" THEN FlipPass ELSE MpmPass)
                   ELSE g.backend
    IN  IF ItersPositive(h[optsRef])
        THEN [opts |-> optsRef, backend |-> backend,
              contacts |-> IF g.contacts # NoContacts THEN g.contacts
                           ELSE SdfColliders(h[optsRef]),
              xpbd |-> TRUE]
        ELSE [opts |-> optsRef, backend |-> backend,
              contacts |-> g.contacts, xpbd |-> FALSE]


----------------------------------------------------------------------------
(* Particles.index.ts : ParticlesSim *)

MaxCapacity == 2
MaxBacklog == 2
LifeMinSeconds == 3
LifeMaxSeconds == 5

\* life = 3 + Math.random() * 2, in ticks: sampled values of [3 s, 5 s)
LifeValues == { LifeMinSeconds * TicksPerSecond,
                (LifeMaxSeconds - 1) * TicksPerSecond }

\* Math.random() draws of one call: the life drawn for the particle that is
\* spawned into slot i
Draws(cap) == [0..(cap - 1) -> LifeValues]

\* the draws a call can consume: none is consumed while emit.rate <= 0
DrawsFor(opts, cap) ==
    IF Nullish(Get(opts.emit, "rate"), 0) <= 0
    THEN { [i \in 0..(cap - 1) |-> LifeMinSeconds * TicksPerSecond] }
    ELSE Draws(cap)

\* spawnParticle: the new particle takes slot alive, with the drawn life
spawnParticle(b, life) ==
    IF b.alive >= b.maxParticles THEN b
    ELSE [b EXCEPT !.life[b.alive] = life, !.alive = b.alive + 1]

\* for (let i = from; i < count; i++) spawnParticle(dt)
RECURSIVE spawnLoop(_, _, _, _)
spawnLoop(b, i, count, draw) ==
    IF i >= count THEN b
    ELSE spawnLoop(spawnParticle(b, IF b.alive \in DOMAIN draw THEN draw[b.alive]
                                    ELSE LifeMinSeconds * TicksPerSecond),
                   i + 1, count, draw)

\* seeding that stops one particle short
seedFromEmitterShort(b, opts, draw) ==
    LET seedCount == Min(b.maxParticles, (Nullish(Get(opts.emit, "rate"), 0)) \div 10)
    IN  spawnLoop([b EXCEPT !.alive = 0], 1, seedCount, draw)

\* seedFromEmitter: floor(rate * 0.1) particles, at most maxParticles
seedFromEmitter(b, opts, draw) ==
    LET seedCount == Min(b.maxParticles, (Nullish(Get(opts.emit, "rate"), 0)) \div 10)
    IN  spawnLoop([b EXCEPT !.alive = 0], 0, seedCount, draw)

\* emitParticles(dt) on <<bundle, emitAccumulator>>; the accumulator counts
\* 1/TicksPerSecond of a particle
emitParticles(b, acc, opts, dt, draw) ==
    LET rate == Nullish(Get(opts.emit, "rate"), 0)
        acc1 == acc + rate * dt
        spawnCount == Min(acc1 \div TicksPerSecond, b.maxParticles - b.alive)
    IN  IF rate <= 0 THEN [bundle |-> b, acc |-> acc]
        ELSE IF spawnCount <= 0 THEN [bundle |-> b, acc |-> acc1]
        ELSE [bundle |-> spawnLoop(b, 0, spawnCount, draw),
              acc |-> acc1 - spawnCount * TicksPerSecond]

\* a removal that leaves the position and velocity of slot i as they are
copySlotSkipped(s, i, src) == s

\* pos[i] = pos[src]; vel[i] = vel[src], for a bundle modelled with its
\* position and velocity arrays
copySlot(s, i, src) ==
    IF "position" \in DOMAIN s
    THEN [s EXCEPT !.position[i] = s.position[src], !.velocity[i] = s.velocity[src]]
    ELSE s

\* the body of integrateLifetime's loop for slot i; s carries life and alive
lifetimeSlot(s, i, dt) ==
    LET life1 == [s.life EXCEPT ![i] = @ - dt]
        alive1 == s.alive - 1
    IN  IF life1[i] > 0 THEN [s EXCEPT !.life = life1]
        ELSE IF i # alive1
             THEN copySlot([s EXCEPT !.life = [life1 EXCEPT ![i] = life1[alive1],
                                                            ![alive1] = 0],
                                     !.alive = alive1], i, alive1)
             ELSE [s EXCEPT !.life = life1, !.alive = alive1]

\* for (let i = start; i >= 0; i--)
RECURSIVE lifetimeLoop(_, _, _)
lifetimeLoop(s, i, dt) ==
    IF i < 0 THEN s ELSE lifetimeLoop(lifetimeSlot(s, i, dt), i - 1, dt)

\* a typed-array read or write outside the array: undefined, or ignored
ReadLife(life, k) == IF k \in DOMAIN life THEN life[k] ELSE Undefined
WriteLife(life, k, v) == IF k \in DOMAIN life THEN [life EXCEPT ![k] = v] ELSE life

lifetimeSlotUnchecked(s, i, dt) ==
    LET cur == ReadLife(s.life, i)
        dec == IF cur = Undefined THEN Undefined ELSE cur - dt
        life1 == WriteLife(s.life, i, dec)
        alive1 == s.alive - 1
    IN  IF Gt(dec, 0) THEN [life |-> life1, alive |-> s.alive]
        ELSE IF i # alive1
             THEN [life |-> WriteLife(WriteLife(life1, i, ReadLife(life1, alive1)),
                                      alive1, 0),
                   alive |-> alive1]
             ELSE [life |-> life1, alive |-> alive1]

RECURSIVE lifetimeLoopUnchecked(_, _, _)
lifetimeLoopUnchecked(s, i, dt) ==
    IF i < 0 THEN s
    ELSE lifetimeLoopUnchecked(lifetimeSlotUnchecked(s, i, dt), i - 1, dt)

\* the loop started one slot too high: for (let i = alive; i >= 0; i--)
integrateLifetimeFromAlive(b, dt) ==
    LET r == lifetimeLoopUnchecked([life |-> b.life, alive |-> b.alive], b.alive, dt)
    IN  [b EXCEPT !.life = r.life, !.alive = r.alive]

\* integrateLifetime(dt)
integrateLifetime(b, dt) == lifetimeLoop(b, b.alive - 1, dt)

\* What one call does to positions and velocities: motion[i] is the position
\* and velocity spawnParticle draws for slot i when the call spawns into it,
\* and where the backend passes leave the particle of slot i when they run.
\* A bundle modelled without its position arrays takes NoMotion.
NoMotion == << >>

\* the position and velocity writes of spawnParticle for the slots spawned
\* between bundle b0 and bundle b1
placeSpawned(b0, b1, motion) ==
    IF "position" \in DOMAIN b1
    THEN [b1 EXCEPT
            !.position = [i \in DOMAIN @ |->
                IF b0.alive <= i /\ i < b1.alive THEN motion[i].p ELSE @[i]],
            !.velocity = [i \in DOMAIN @ |->
                IF b0.alive <= i /\ i < b1.alive THEN motion[i].v ELSE @[i]]]
    ELSE b1

\* new XpbdPass(contacts).passes, by name
XpbdPass == << "contactsBuildSdfNode", "xpbdProjectNode" >>

\* ParticlesGraph.step(dt): the backend passes over the live slots, then
\* xpbd.step, whose xpbdProjectNode pass calls contacts.resolve once
graphStep(b, g, motion) ==
    IF "position" \in DOMAIN b
    THEN LET passed ==
                 [b EXCEPT
                    !.position = [i \in DOMAIN @ |->
                        IF i < b.alive THEN motion[i].p ELSE @[i]],
                    !.velocity = [i \in DOMAIN @ |->
                        IF i < b.alive THEN motion[i].v ELSE @[i]]]
             r == resolve(g.contacts, passed, passed.alive)
         IN  IF g.xpbd
             THEN [passed EXCEPT !.position = r.position, !.velocity = r.velocity]
             ELSE passed
    ELSE b

\* the names of what graph.step runs, in order
\* a step that would run the contact passes ahead of the backend passes
graphStepNamesContactsFirst(g) == (IF g.xpbd THEN XpbdPass ELSE << >>) \o g.backend

graphStepNames(g) == g.backend \o (IF g.xpbd THEN XpbdPass ELSE << >>)

\* an applyBounds that leaves every particle where it is
applyBoundsSkipped(b) == b

\* applyBounds(): a live particle below y = 0 is put on y = 0
applyBounds(b) ==
    IF "position" \in DOMAIN b
    THEN LET below(i) == i < b.alive /\ b.position[i][2] < 0
         IN  [b EXCEPT
                !.position = [i \in DOMAIN @ |->
                    IF below(i) THEN <<@[i][1], 0, @[i][3]>> ELSE @[i]],
                !.velocity = [i \in DOMAIN @ |->
                    IF below(i)
                    THEN <<Fround(Mul(@[i][1], FromPercent(85))),
                           IF @[i][2] < 0 THEN Fround(Mul(@[i][2], FromPercent(-40)))
                           ELSE @[i][2],
                           Fround(Mul(@[i][3], FromPercent(85)))>>
                    ELSE @[i]]]
    ELSE b

\* one sub-tick of update(): emit, graph.step, applyBounds, integrateLifetime
subTick(s, g, opts, step, draw, motion) ==
    LET e == emitParticles(s.bundle, s.acc, opts, step, draw)
        spawned == placeSpawned(s.bundle, e.bundle, motion)
        stepped == graphStep(spawned, g, motion)
        bounded == applyBounds(stepped)
    IN  [bundle |-> integrateLifetime(bounded, step),
         acc |-> e.acc,
         ran |-> g.backend,
         stages |-> s.stages \o <<"emitParticles">> \o graphStepNames(g)
                    \o <<"applyBounds", "integrateLifetime">>,
         ticks |-> s.ticks + 1,
         simulated |-> s.simulated + step]

\* for (let i = 0; i < substeps; i++) { ... }
RECURSIVE subTickLoop(_, _, _, _, _, _, _, _)
subTickLoop(s, g, opts, i, substeps, step, draws, motion) ==
    IF i >= substeps THEN s
    ELSE subTickLoop(subTick(s, g, opts, step, draws, motion), g, opts,
                     i + 1, substeps, step, draws, motion)

\* update(dt) without the clamp to dtMax
updateStepsUnclamped(opts, dt) ==
    LET substeps == Max(1, Nullish(Get(opts.time, "substeps"), 1))
    IN  [capped |-> dt, substeps |-> substeps, step |-> dt \div substeps]

\* the first three lines of update(dt): capped, substeps, step
updateSteps(opts, dt) ==
    LET capped == Min(dt, Nullish(Get(opts.time, "dtMax"), dt))
        substeps == Max(1, Nullish(Get(opts.time, "substeps"), 1))
    IN  [capped |-> capped, substeps |-> substeps, step |-> capped \div substeps]

\* update(dt) arguments: one below dtMax, one above
DtValues == { 2 * TicksPerSecond, 6 * TicksPerSecond }
\* time.substeps values patched in by setParams (the default is 2)
SubstepsValues == { 0, 1 }
\* emit.rate values: no emission, one particle per second, a burst
RateValues == { 0, 1, 20 }

validOptions(opts) == validateOptions(opts) = "ok"

\* constructor arguments: a small capacity, a dtMax of whole seconds
CtorPatches ==
    { [mode |-> m, counts |-> [maxParticles |-> n],
       time |-> [dtMax |-> 4 * TicksPerSecond],
       emit |-> [rate |-> r]] :
        m \in {"flip", "mpm"}, n \in 1..MaxCapacity, r \in RateValues }

\* the merge/validate harness is not used by the simulation's specification
ParamsIdle ==
    /\ pTarget = << >>
    /\ pPatch = << >>
    /\ pOrig = << >>
    /\ pFirst = << >>
    /\ pMerges = 0
    /\ pVerdict = "none"
    /\ pName = "none"
    /\ pOutcome = "none"

\* the resolve harness is not used by this specification
ResolveIdle ==
    /\ contacts = << >>
    /\ particles = << >>
    /\ atEntry = << >>
    /\ resolves = 0

\* the GPU facade, the device and the kernels are not used by this specification
GraphIdle ==
    /\ gOptions = << >>
    /\ gPasses = << >>
    /\ issued = << >>
    /\ gStats = << >>
    /\ gCall = "none"

AllocIdle ==
    /\ device = << >>
    /\ allocators = << >>
    /\ allocOutcome = [status |-> "none", attempt |-> 0]

KernelIdle ==
    /\ gpuKernel = << >>
    /\ gpuParticles = << >>
    /\ gpuGrid = << >>
    /\ gpuPass = 0
    /\ gpuProgress = << >>
    /\ gpuExecutes = 0

GpuIdle == GraphIdle /\ AllocIdle /\ KernelIdle

LifeIdle ==
    /\ lBundle = << >>
    /\ lEntry = << >>
    /\ lDt = 0
    /\ lCalls = 0

BlendIdle ==
    /\ g2pIn = << >>
    /\ g2pOut = << >>

AliasIdle ==
    /\ oHeap = << >>
    /\ oRoots = << >>
    /\ oTarget = ""
    /\ oWritten = {}
    /\ oCalls = 0

FeaturesIdle ==
    /\ features = << >>
    /\ fCalls = << >>
    /\ fOps = 0

ExtIdle == LifeIdle /\ BlendIdle /\ AliasIdle /\ FeaturesIdle

\* the record of the last update() is empty unless update() was the last call
NoUpdateRecord ==
    /\ lastStep = 0
    /\ ranPasses = << >>
    /\ subTicks = 0
    /\ simulated = 0
    /\ lastDt = 0
    /\ stageLog = << >>

ClearUpdateRecord ==
    /\ lastStep' = 0
    /\ ranPasses' = << >>
    /\ subTicks' = 0
    /\ simulated' = 0
    /\ lastDt' = 0
    /\ stageLog' = << >>

\* particle states of the bundles modelled with positions, in 1/1000 and
\* as float32 values: above the ground, just below it, well below it
MotionStates ==
    { [p |-> Vec(Fround, Vec(FromMilli, m[1])), v |-> Vec(Fround, Vec(FromMilli, m[2]))] :
        m \in { << <<0, 500, 0>>, <<1000, 1000, 0>> >>,
                << <<0, -5, 0>>, <<0, -1000, 0>> >>,
                << <<0, -1000, 0>>, <<0, -1000, 0>> >> } }

\* the motions a call on bundle b can take
MotionsFor(b) ==
    IF "position" \in DOMAIN b
    THEN [DOMAIN b.position -> MotionStates]
    ELSE {NoMotion}

\* new ParticlesSim(renderer, opts)
Init ==
    /\ \E opts \in CtorPatches :
         \E draw \in Draws(MaxCapacity) :
           LET o == mergeOptions(createDefaultOptions, opts)
               h == [r \in {OptionsRef} |-> o]
           IN  /\ validOptions(o)
               /\ heap = h
               /\ bundle = seedFromEmitter(allocate(o), o, draw)
               /\ graph = newParticlesGraph(h, OptionsRef)
    /\ emitAccumulator = 0
    /\ lastCall = "new"
    /\ NoUpdateRecord
    /\ ParamsIdle
    /\ ResolveIdle
    /\ GpuIdle
    /\ ExtIdle

\* what update() leaves behind: s is the state after the last sub-tick
UpdateResult(s, step) ==
    /\ bundle' = s.bundle
    /\ emitAccumulator' = s.acc
    /\ ranPasses' = s.ran
    /\ stageLog' = s.stages
    /\ subTicks' = s.ticks
    /\ simulated' = s.simulated
    /\ lastStep' = step

\* update(dt)
Update(dt) ==
    /\ emitAccumulator <= MaxBacklog * TicksPerSecond
    /\ \E draws \in DrawsFor(heap[OptionsRef], bundle.maxParticles),
          motion \in MotionsFor(bundle) :
         LET opts == heap[OptionsRef]
             u == updateSteps(opts, dt)
         IN  UpdateResult(subTickLoop([bundle |-> bundle, acc |-> emitAccumulator,
                                       ran |-> << >>, stages |-> << >>,
                                       ticks |-> 0, simulated |-> 0],
                                      graph, opts, 0, u.substeps, u.step,
                                      draws, motion),
                          u.step)
    /\ lastDt' = dt
    /\ lastCall' = "update"
    /\ UNCHANGED <<heap, graph>>
    /\ UNCHANGED paramVars
    /\ UNCHANGED resolveVars
    /\ UNCHANGED gpuVars
    /\ UNCHANGED extVars

\* patches the host application sends to setParams
SimPatches ==
    { [mode |-> m] : m \in {"flip", "mpm"} }
    \cup { [counts |-> [maxParticles |-> MaxCapacity]] }
    \cup { [emit |-> [rate |-> r]] : r \in RateValues }
    \cup { [time |-> [substeps |-> k]] : k \in SubstepsValues }

\* setParams(patch).  mergeOptions writes the shared options object before
\* validateOptions runs; when validateOptions throws, the rest is skipped.
SetParams(patch) ==
    LET prevMode == heap[OptionsRef].mode
        merged == mergeOptions(heap[OptionsRef], patch)
        h == [heap EXCEPT ![OptionsRef] = merged]
        modeChanged == "mode" \in DOMAIN patch /\ patch.mode # prevMode
    IN  /\ heap' = h
        /\ IF ~validOptions(merged)
           THEN /\ lastCall' = "setParamsThrew"
                /\ UNCHANGED <<bundle, graph, emitAccumulator>>
           ELSE /\ \E draw \in IF modeChanged THEN DrawsFor(merged, bundle.maxParticles)
                               ELSE DrawsFor(merged, 0),
                      motion \in IF modeChanged THEN MotionsFor(bundle)
                                 ELSE {NoMotion} :
                     LET b0 == [bundle EXCEPT !.alive = 0]
                         b1 == IF modeChanged
                               THEN placeSpawned(b0, seedFromEmitter(b0, merged, draw),
                                                 motion)
                               ELSE bundle
                         b2 == IF "emit" \in DOMAIN patch
                               THEN [b1 EXCEPT !.alive = Min(b1.alive, b1.maxParticles)]
                               ELSE b1
                     IN  bundle' = b2
                /\ emitAccumulator' = IF "emit" \in DOMAIN patch THEN 0
                                      ELSE emitAccumulator
                /\ graph' = setOptions(graph, h, OptionsRef)
                /\ lastCall' = IF modeChanged THEN "setParamsReset" ELSE "setParams"
        /\ ClearUpdateRecord
        /\ UNCHANGED paramVars
        /\ UNCHANGED resolveVars
        /\ UNCHANGED gpuVars
        /\ UNCHANGED extVars

Next ==
    \/ \E dt \in DtValues : Update(dt)
    \/ \E patch \in SimPatches : SetParams(patch)

Spec == Init /\ [][Next]_vars

----------------------------------------------------------------------------
(* Properties of the simulation facade, checked under Spec *)

options == heap[OptionsRef]

BackendOf(mode) == IF mode = "flip" THEN FlipPass ELSE MpmPass

\* C1: the passes an update() runs are those of the backend that matches the
\* current options.mode (FlipPass for 'flip', MpmPass for 'mpm').
C1_PassesMatchMode ==
    lastCall = "update" => ranPasses = BackendOf(options.mode)

\* C2: a setParams call that fails validation leaves the options exactly as
\* they were before the call.
C2_NeverPartiallyApplied ==
    [][lastCall' = "setParamsThrew" => heap' = heap]_vars

\* C3: after construction and after every update and setParams call,
\* 0 <= alive <= maxParticles of the bundle.
C3_AliveWithinCapacity ==
    0 <= bundle.alive /\ bundle.alive <= bundle.maxParticles

\* an update returned with the bundle full and emission cut short by capacity
C3_FullBundleReached ==
    /\ lastCall = "update"
    /\ bundle.alive = bundle.maxParticles
    /\ emitAccumulator >= TicksPerSecond

\* C4: when update() has returned, slot i holds life > 0 exactly when
\* i < alive.
C4_LiveExactlyBelowAlive ==
    lastCall = "update" =>
        \A i \in 0..(bundle.maxParticles - 1) :
            (bundle.life[i] > 0) <=> (i < bundle.alive)

C6_BundleMatchesCapacity ==
    lastCall \in {"setParams", "setParamsReset"} =>
        /\ bundle.maxParticles = options.counts.maxParticles
        /\ DOMAIN bundle.life = 0..(options.counts.maxParticles - 1)

----------------------------------------------------------------------------
(* mergeOptions and validateOptions as pure functions: a target, a patch, *)
(* the patch merged repeatedly, the result validated                       *)

MaxMerges == 2

\* per section: no patch for it, or one of these values
PatchChoices ==
    [mode : {{}, {"flip"}, {"mpm"}},
     counts : {{}, {[maxParticles |-> 0]}},
     grid : {{}, {[dx |-> 0]}, {[dx |-> Undefined]}, {[res |-> <<-1, -1, 1>>]},
             {[res |-> <<0, 96, 96>>]}},
     time : {{}, {[substeps |-> 0]}, {[substeps |-> Undefined, dtMax |-> 0]}},
     gravity : {{}, {<<0, 0, 0>>}},
     flip : {{}, {[pressureIters |-> 0]}, {[picFlip |-> Percent + 1]},
             {[picFlip |-> -1]}},
     mpm : {{}, {[E |-> 0]}, {[nu |-> NuLimit]}, {[nu |-> -1]}},
     xpbd : {{}, {[iters |-> 0]},
             {[iters |-> Undefined, friction |-> Undefined,
               compliance |-> [contact |-> 5]]}},
     colliders : {{}, {<< [kind |-> "sphere",
                          params |-> [center |-> <<0, 0, 0>>, radius |-> 1]] >>}}]

\* the patch object of a choice: only the chosen sections are properties
PatchOf(choice) ==
    [k \in {key \in DOMAIN choice : choice[key] # {}} |->
        CHOOSE v \in choice[k] : TRUE]

ParamPatches == { PatchOf(choice) : choice \in PatchChoices }

\* the simulation is not used by the harness's specification
SimIdle ==
    /\ heap = << >>
    /\ bundle = << >>
    /\ graph = << >>
    /\ emitAccumulator = 0
    /\ lastCall = "none"
    /\ NoUpdateRecord

InitParams ==
    /\ pTarget = createDefaultOptions
    /\ pPatch \in ParamPatches
    /\ pOrig = pTarget
    /\ pFirst = pTarget
    /\ pMerges = 0
    /\ pVerdict = "none"
    /\ pName = "none"
    /\ pOutcome = "none"
    /\ SimIdle
    /\ ResolveIdle
    /\ GpuIdle
    /\ ExtIdle

\* target = mergeOptions(target, patch)
MergeStep ==
    /\ pMerges < MaxMerges
    /\ pTarget' = mergeOptions(pTarget, pPatch)
    /\ pFirst' = IF pMerges = 0 THEN pTarget' ELSE pFirst
    /\ pMerges' = pMerges + 1
    /\ pVerdict' = "none"
    /\ UNCHANGED <<pPatch, pOrig, pName, pOutcome>>
    /\ UNCHANGED simVars
    /\ UNCHANGED resolveVars
    /\ UNCHANGED gpuVars
    /\ UNCHANGED extVars

\* validateOptions(target)
ValidateStep ==
    /\ pVerdict = "none"
    /\ pVerdict' = validateOptions(pTarget)
    /\ UNCHANGED <<pTarget, pPatch, pOrig, pFirst, pMerges, pName, pOutcome>>
    /\ UNCHANGED simVars
    /\ UNCHANGED resolveVars
    /\ UNCHANGED gpuVars
    /\ UNCHANGED extVars

NextParams == MergeStep \/ ValidateStep

SpecParams == InitParams /\ [][NextParams]_vars

\* the scalar properties of each nested options object
ScalarFields ==
    [counts |-> {"maxParticles", "particlesPerTile"},
     grid |-> {"dx"},
     time |-> {"substeps", "cfl", "dtMax"},
     flip |-> {"picFlip", "pressureIters", "vorticity", "viscosity", "surface",
               "cohesion"},
     mpm |-> {"E", "nu", "yield", "hardening", "frictionDeg", "cohesion",
              "apicBlend"},
     xpbd |-> {"iters", "friction", "restitution", "shock"},
     emit |-> {"rate", "radius", "speed", "jitter"},
     render |-> {"size", "opacity"}]

\* every scalar property defined in before is defined in after
StillDefined(before, after) ==
    \A sec \in DOMAIN ScalarFields :
        \A k \in ScalarFields[sec] :
            (k \in DOMAIN before[sec] /\ before[sec][k] # Undefined) =>
                (k \in DOMAIN after[sec] /\ after[sec][k] # Undefined)

\* the options the validation rules of the specification reject
RejectedByRules(o) ==
    \/ Le(Get(o.counts, "maxParticles"), 0)
    \/ \E axis \in 1..3 : o.grid.res[axis] <= 0
    \/ Le(Get(o.grid, "dx"), 0)
    \/ Lt(Get(o.time, "substeps"), 1)
    \/ Le(Get(o.time, "dtMax"), 0)
    \/ /\ o.mode = "flip"
       /\ \/ Lt(Get(o.flip, "pressureIters"), 1)
          \/ Lt(Get(o.flip, "picFlip"), 0)
          \/ Gt(Get(o.flip, "picFlip"), Percent)
    \/ /\ o.mode = "mpm"
       /\ \/ Le(Get(o.mpm, "E"), 0)
          \/ Lt(Get(o.mpm, "nu"), 0)
          \/ Ge(Get(o.mpm, "nu"), NuLimit)

\* C8: validateOptions fails for every options value that breaks one of the
\* rules (maxParticles, any grid axis, dx, substeps, dtMax, and the rules of
\* the active mode).
C8_ValidateRejectsInvalid ==
    (pVerdict # "none" /\ RejectedByRules(pTarget)) => pVerdict # "ok"

\* C9: every field that was defined in the target before a merge is still
\* defined after it.
C9_MergeKeepsFieldsDefined ==
    pMerges >= 1 => StillDefined(pOrig, pTarget)

\* C10: merging the same patch again changes nothing:
\* merge(merge(o, p), p) = merge(o, p), field by field.
C10_MergeIdempotent ==
    pMerges >= 2 => pTarget = pFirst

\* a patch that replaces the collider list and changes scalars, merged twice
C10_MergedTwice ==
    /\ pMerges = 2
    /\ "colliders" \in DOMAIN pPatch
    /\ "grid" \in DOMAIN pPatch
    /\ pFirst # pOrig

----------------------------------------------------------------------------
(* applyPreset as a pure function: a target, preset names applied in turn, *)
(* the result validated                                                    *)

MaxApplies == 2

\* names handed to applyPreset: the registered ones and two that are not
PresetNames == DOMAIN PRESETS \cup {"lava_flip", "toString2"}

\* the options applyPreset is called on: the defaults, or the defaults with
\* one earlier patch
PresetTargetPatches ==
    { [mode |-> "mpm"],
      [flip |-> [picFlip |-> Percent + 1]],
      [mpm |-> [nu |-> NuLimit]],
      [xpbd |-> [iters |-> 0]],
      [time |-> [substeps |-> 0]] }

PresetTargets ==
    {createDefaultOptions}
    \cup { mergeOptions(createDefaultOptions, p) : p \in PresetTargetPatches }

InitPresets ==
    /\ pTarget \in PresetTargets
    /\ pPatch = << >>
    /\ pOrig = pTarget
    /\ pFirst = pTarget
    /\ pMerges = 0
    /\ pVerdict = "none"
    /\ pName = "none"
    /\ pOutcome = "none"
    /\ SimIdle
    /\ ResolveIdle
    /\ GpuIdle
    /\ ExtIdle

\* target = applyPreset(target, name)
ApplyPresetStep(name) ==
    /\ pMerges < MaxApplies
    /\ LET r == applyPreset(pTarget, name)
       IN  /\ pTarget' = r.value
           /\ pOutcome' = r.outcome
           /\ pFirst' = IF pMerges = 0 THEN r.value ELSE pFirst
    /\ pName' = name
    /\ pMerges' = pMerges + 1
    /\ pVerdict' = "none"
    /\ UNCHANGED <<pPatch, pOrig>>
    /\ UNCHANGED simVars
    /\ UNCHANGED resolveVars
    /\ UNCHANGED gpuVars
    /\ UNCHANGED extVars

NextPresets ==
    \/ \E name \in PresetNames : ApplyPresetStep(name)
    \/ ValidateStep

SpecPresets == InitPresets /\ [][NextPresets]_vars

\* the mode a preset's name announces: the part after the underscore
NamedMode ==
    [water_flip |-> "flip", sheet_flip |-> "flip", jelly_mpm |-> "mpm",
     sand_mpm |-> "mpm", slime_mpm |-> "mpm"]

\* C11: applyPreset fails with UnknownPresetError whenever the name is not a
\* key of the preset table.
C11_UnknownPresetFails ==
    (pName # "none" /\ pName \notin DOMAIN PRESETS) =>
        pOutcome = "UnknownPresetError"

\* C12: applying a registered preset to the default options gives options
\* that validate, and whose mode is the one the preset's name announces.
C12_PresetOnDefaultsValid ==
    (pMerges = 1 /\ pOrig = createDefaultOptions /\ pName \in DOMAIN NamedMode) =>
        /\ pTarget.mode = NamedMode[pName]
        /\ pVerdict # "none" => pVerdict = "ok"

\* sand_mpm applied to the defaults and validated
C12_SandPresetValidated ==
    /\ pMerges = 1
    /\ pOrig = createDefaultOptions
    /\ pName = "sand_mpm"
    /\ pVerdict = "ok"
    /\ pTarget.mode = "mpm"
    /\ pTarget.mpm.E = 45000

\* C13: validateOptions(createDefaultOptions()) does not fail.
C13_DefaultsValid ==
    (pMerges = 0 /\ pVerdict # "none") => pVerdict = "ok"

\* the untouched defaults, validated
C13_DefaultsValidated ==
    /\ pMerges = 0
    /\ pTarget = createDefaultOptions
    /\ pVerdict = "ok"

----------------------------------------------------------------------------
(* SdfColliders.resolve on its own: a resolver built from options, particle *)
(* arrays, resolve() called repeatedly                                     *)

MaxResolves == 2

SlotIds == {0, 1}

\* options.colliders as an application passes them (lengths in 1/1000,
\* normals in 1/100); an empty or unsupported list gives the ground plane
ResolveColliderLists ==
    { << >>,
      << [kind |-> "capsule", params |-> [radius |-> 100]] >>,
      << [kind |-> "plane", params |-> [normal |-> <<Percent, 0, 0>>, offset |-> 500]] >>,
      << [kind |-> "plane", params |-> [normal |-> <<0, Percent \div 2, 0>>, offset |-> 0],
          thickness |-> 0] >>,
      << [kind |-> "plane", params |-> [normal |-> <<0, Percent, 0>>], thickness |-> 500,
          friction |-> 0, restitution |-> Percent] >>,
      << [kind |-> "sphere", params |-> [center |-> <<0, 0, 0>>, radius |-> 500]] >>,
      << [kind |-> "box", params |-> [min |-> <<-500, 0, -500>>, max |-> <<500, 500, 500>>],
          thickness |-> 20] >>,
      << [kind |-> "plane", params |-> [normal |-> <<0, Percent, 0>>, offset |-> 0]],
         [kind |-> "sphere", params |-> [center |-> <<0, 0, 0>>, radius |-> 500]] >> }

\* particle positions and velocities, in 1/1000, as float32 values
ResolvePositions ==
    { Vec(Fround, Vec(FromMilli, p)) :
        p \in { <<0, -1000, 0>>, <<0, 5, 0>>, <<0, 1000, 0>>, <<-1000, 0, 0>>,
                <<300, 400, 0>>, <<0, 510, 0>>, <<0, 0, 0>> } }

ResolveVelocities ==
    { Vec(Fround, Vec(FromMilli, v)) :
        v \in { <<0, -1000, 0>>, <<1000, 1000, 0>>, <<0, 0, 0>> } }

InitResolve ==
    /\ \E list \in ResolveColliderLists :
         contacts = SdfColliders(mergeOptions(createDefaultOptions,
                                              [colliders |-> list]))
    /\ \E pos \in [SlotIds -> ResolvePositions], alive \in 0..Cardinality(SlotIds) :
         \E vel \in ResolveVelocities :
           particles = [position |-> pos, velocity |-> [i \in SlotIds |-> vel],
                        alive |-> alive]
    /\ atEntry = particles
    /\ resolves = 0
    /\ SimIdle
    /\ ParamsIdle
    /\ GpuIdle
    /\ ExtIdle

\* contacts.resolve(position, velocity, alive)
ResolveStep ==
    /\ resolves < MaxResolves
    /\ atEntry' = particles
    /\ LET r == resolve(contacts, particles, particles.alive)
       IN  particles' = [particles EXCEPT !.position = r.position,
                                          !.velocity = r.velocity]
    /\ resolves' = resolves + 1
    /\ UNCHANGED contacts
    /\ UNCHANGED simVars
    /\ UNCHANGED paramVars
    /\ UNCHANGED gpuVars
    /\ UNCHANGED extVars

NextResolve == ResolveStep

SpecResolve == InitResolve /\ [][NextResolve]_vars

\* dot(pos, normal) + offset - thickness for plane collider c
PlaneDistance(pos, c) ==
    Dot(pos, Vec(FromPercent, c.params.normal))
    + FromMilli(Nullish(Get(c.params, "offset"), 0)) - FromMilli(c.thickness)

SolePlane == Len(contacts) = 1 /\ contacts[1].kind = "plane"

\* C14: with a plane as the sole collider, a live particle that was strictly
\* inside the excluded half-space when resolve() started has a non-negative
\* signed distance dot(pos, normal) + offset - thickness when it returns.
C14_PlaneResolvedInOneCall ==
    (resolves >= 1 /\ SolePlane) =>
        \A i \in SlotIds :
            (i < particles.alive /\ PlaneDistance(atEntry.position[i], contacts[1]) < 0)
                => PlaneDistance(particles.position[i], contacts[1]) >= 0

----------------------------------------------------------------------------
(* Sphere and box contacts, checked under SpecResolve *)

SoleSphere == Len(contacts) = 1 /\ contacts[1].kind = "sphere"
SoleBox == Len(contacts) = 1 /\ contacts[1].kind = "box"

\* radius + thickness - |pos - center| for sphere collider c
SpherePenetration(pos, c) ==
    FromMilli(Nullish(Get(c.params, "radius"), 1000)) + FromMilli(c.thickness)
    - Length(Sub(pos, Vec(FromMilli, c.params.center)))

\* thickness - distance of pos from box collider c, the distance being 0
\* inside the box
BoxPenetration(pos, c) ==
    FromMilli(c.thickness)
    - Length(Sub(pos, boxNext(pos, Vec(FromMilli, c.params.min),
                              Vec(FromMilli, c.params.max))))

SoleColliderPenetration(pos) ==
    IF SoleSphere THEN SpherePenetration(pos, contacts[1])
    ELSE BoxPenetration(pos, contacts[1])

\* C25: with a sphere or a box as the sole collider, a live particle whose
\* penetration was positive when resolve() started (inside radius +
\* thickness of the sphere, its center included; inside the box or within
\* thickness of it) has penetration <= 0 when the call returns.
C25_SphereBoxResolvedInOneCall ==
    (resolves >= 1 /\ (SoleSphere \/ SoleBox)) =>
        \A i \in SlotIds :
            (i < particles.alive /\ SoleColliderPenetration(atEntry.position[i]) > 0)
                => SoleColliderPenetration(particles.position[i]) <= 0

\* dot(velocity, normal) for plane collider c
NormalVelocity(vel, c) == Dot(vel, Vec(FromPercent, c.params.normal))

\* C28: after resolve() has corrected a particle that penetrated a plane
\* collider, the particle is not moving into the plane: dot(velocity,
\* normal) >= 0, whatever the sign of the normal velocity before the call.
C28_NotMovingIntoPlane ==
    (resolves >= 1 /\ SolePlane) =>
        \A i \in SlotIds :
            (i < atEntry.alive /\ PlaneDistance(atEntry.position[i], contacts[1]) < 0)
                => NormalVelocity(particles.velocity[i], contacts[1]) >= 0

----------------------------------------------------------------------------
(* ParticlesSim with the position and velocity arrays of its bundle *)

\* ParticlesBufferAllocator.allocate with the position and velocity arrays
allocateArrays(opts) ==
    LET b == allocate(opts)
    IN  [maxParticles |-> b.maxParticles, alive |-> b.alive, life |-> b.life,
         position |-> [i \in DOMAIN b.life |-> <<0, 0, 0>>],
         velocity |-> [i \in DOMAIN b.life |-> <<0, 0, 0>>]]

\* constructor arguments: one slot per SlotIds, with and without contacts
MotionCtorPatches ==
    { [counts |-> [maxParticles |-> Cardinality(SlotIds)],
       time |-> [dtMax |-> 4 * TicksPerSecond],
       xpbd |-> [iters |-> k],
       emit |-> [rate |-> r]] : k \in {0, 4}, r \in RateValues }

InitMotion ==
    /\ \E opts \in MotionCtorPatches :
         \E draw \in Draws(Cardinality(SlotIds)) :
           LET o == mergeOptions(createDefaultOptions, opts)
               h == [r \in {OptionsRef} |-> o]
               b0 == allocateArrays(o)
           IN  /\ validOptions(o)
               /\ heap = h
               /\ \E motion \in MotionsFor(b0) :
                    bundle = placeSpawned(b0, seedFromEmitter(b0, o, draw), motion)
               /\ graph = newParticlesGraph(h, OptionsRef)
    /\ emitAccumulator = 0
    /\ lastCall = "new"
    /\ NoUpdateRecord
    /\ ParamsIdle
    /\ ResolveIdle
    /\ GpuIdle
    /\ ExtIdle

\* patches sent to setParams: one that reseeds, one that slows the emitter
MotionPatches ==
    { [mode |-> "mpm"], [emit |-> [rate |-> 1]] }

NextMotion ==
    \/ \E dt \in DtValues : Update(dt)
    \/ \E patch \in MotionPatches : SetParams(patch)

SpecMotion == InitMotion /\ [][NextMotion]_vars

\* the thickness of the ground plane the graph resolves against
GroundThickness == FromMilli(PlaneThickness)

\* C15: after update() returns, no live particle is below the ground plane
\* by more than its thickness: y >= -thickness for every slot in [0, alive).
C15_NoParticleBelowGround ==
    lastCall = "update" =>
        \A i \in DOMAIN bundle.position :
            i < bundle.alive => bundle.position[i][2] >= -GroundThickness

\* an update with contacts that ends with live particles, one of them
\* brought up from below the ground
C15_LiftedFromBelow ==
    /\ lastCall = "update"
    /\ graph.xpbd
    /\ bundle.alive = Cardinality(SlotIds)
    /\ \E i \in DOMAIN bundle.position :
         i < bundle.alive /\ bundle.position[i][2] = Fround(GroundThickness)

----------------------------------------------------------------------------
(* Particles.graph.ts: the resolver of the graph when setParams changes    *)
(* the colliders.  One slot, modelled with its position and velocity.      *)

\* collider lists handed to setParams
ColliderLists ==
    { << [kind |-> "sphere", params |-> [center |-> <<0, 0, 0>>, radius |-> 500]] >>,
      << [kind |-> "box", params |-> [min |-> <<-500, 0, -500>>, max |-> <<500, 500, 500>>],
          thickness |-> 20] >> }

\* constructor arguments: one slot, with and without contacts
ColliderCtorPatches ==
    { [counts |-> [maxParticles |-> 1],
       time |-> [dtMax |-> 4 * TicksPerSecond],
       xpbd |-> [iters |-> k],
       emit |-> [rate |-> 20]] : k \in {0, 4} }

InitColliders ==
    /\ \E opts \in ColliderCtorPatches :
         \E draw \in Draws(1) :
           LET o == mergeOptions(createDefaultOptions, opts)
               h == [r \in {OptionsRef} |-> o]
               b0 == allocateArrays(o)
           IN  /\ validOptions(o)
               /\ heap = h
               /\ \E motion \in MotionsFor(b0) :
                    bundle = placeSpawned(b0, seedFromEmitter(b0, o, draw), motion)
               /\ graph = newParticlesGraph(h, OptionsRef)
    /\ emitAccumulator = 0
    /\ lastCall = "new"
    /\ NoUpdateRecord
    /\ ParamsIdle
    /\ ResolveIdle
    /\ GpuIdle
    /\ ExtIdle

\* patches sent to setParams: new colliders, contacts switched off and on
ColliderPatches ==
    { [colliders |-> list] : list \in ColliderLists }
    \cup { [xpbd |-> [iters |-> k]] : k \in {0, 4} }

NextColliders ==
    \/ Update(2 * TicksPerSecond)
    \/ \E patch \in ColliderPatches : SetParams(patch)

SpecColliders == InitColliders /\ [][NextColliders]_vars

\* C23: a change of colliders takes effect through a new resolver: once
\* setParams has returned, and whenever update() runs, the resolver the
\* graph steps with is the one constructed from the colliders of the
\* options as they are now.
C23_ResolverBuiltFromCurrentColliders ==
    (lastCall \in {"setParams", "setParamsReset", "update"} /\ graph.xpbd) =>
        graph.contacts = SdfColliders(heap[OptionsRef])

----------------------------------------------------------------------------
(* Stage order of update(), checked under Spec *)

\* the elements of a sequence
Range(seq) == { seq[i] : i \in DOMAIN seq }

\* the stage a logged name belongs to: 1 emit, 2 backend pass, 3 contact
\* resolution, 4 bounds, 5 lifetime integration
StageRank(name) ==
    CASE name = "emitParticles" -> 1
      [] name \in Range(XpbdPass) -> 3
      [] name = "applyBounds" -> 4
      [] name = "integrateLifetime" -> 5
      [] OTHER -> 2

\* how many times name was logged
TimesLogged(name) == Cardinality({ i \in DOMAIN stageLog : stageLog[i] = name })

\* C18: in every sub-tick of update() the stages run in the order emit, all
\* backend passes, contact resolution, lifetime integration; nothing of a
\* later stage precedes an earlier stage of the same sub-tick, and the
\* lifetime integration of one sub-tick is followed by the emission of the next.
C18_StagesInOrder ==
    lastCall = "update" =>
        /\ stageLog # << >>
        /\ stageLog[1] = "emitParticles"
        /\ stageLog[Len(stageLog)] = "integrateLifetime"
        /\ \A i \in 1..(Len(stageLog) - 1) :
             IF stageLog[i] = "integrateLifetime"
             THEN stageLog[i + 1] = "emitParticles"
             ELSE /\ stageLog[i + 1] # "emitParticles"
                  /\ StageRank(stageLog[i]) <= StageRank(stageLog[i + 1])
        /\ \A name \in {"emitParticles", "integrateLifetime"} \cup Range(graph.backend) :
             TimesLogged(name) = subTicks

\* an update of two sub-ticks with contact passes in both
C18_TwoSubTicksWithContacts ==
    /\ lastCall = "update"
    /\ subTicks = 2
    /\ graph.xpbd
    /\ TimesLogged("xpbdProjectNode") = 2

\* opts.xpbd.iters as a count of repetitions
ItersOf(opts) ==
    LET iters == Get(opts.xpbd, "iters")
    IN  IF iters # Undefined /\ iters > 0 THEN iters ELSE 0

\* C20: in each step (each graph.step of update()) the whole contact resolve
\* pass runs exactly xpbd.iters times.
C20_ResolveRunsItersTimes ==
    lastCall = "update" =>
        TimesLogged("xpbdProjectNode") = subTicks * ItersOf(options)

----------------------------------------------------------------------------
(* The emit accumulator, checked under Spec *)

\* C27: emitParticles carries over only the fractional remainder: after an
\* update() with emit.rate > 0 the accumulator lies in [0, 1) particle,
\* also while the population is at capacity.
C27_AccumulatorBelowOne ==
    (lastCall = "update" /\ Gt(Get(options.emit, "rate"), 0)) =>
        0 <= emitAccumulator /\ emitAccumulator < TicksPerSecond

----------------------------------------------------------------------------
(* The GPU facade: ParticlesSim of src/index.ts driving the ParticlesGraph *)
(* of Particles.contacts.ts over the passes of Particles.backends.ts.      *)

\* a FLIP pass list that accumulates before the grid is cleared
GpuFlipPassP2GFirst ==
    << "p2gApicNode", "gridClearNode", "gridForcesNode", "pressureSolveNode",
       "g2pApicNode", "reseedCompactNode" >>

\* new FlipPass(bundle, opts).passes, by name
GpuFlipPass ==
    << "gridClearNode", "p2gApicNode", "gridForcesNode", "pressureSolveNode",
       "g2pApicNode", "reseedCompactNode" >>

\* new MpmPass(bundle, opts).passes, by name
GpuMpmPass ==
    << "gridClearNode", "mpmP2gNode", "mpmPlasticityNode", "gridUpdateCflNode",
       "mpmG2pApicNode" >>

\* new XpbdPass(bundle, opts).passes, by name
GpuXpbdPass == << "contactsBuildSdfNode", "xpbdProjectNode" >>

\* the contact passes pushed for iterations i .. iters - 1
RECURSIVE xpbdRecords(_, _)
xpbdRecords(i, iters) ==
    IF i >= iters THEN << >>
    ELSE [k \in DOMAIN GpuXpbdPass |->
             [name |-> GpuXpbdPass[k] \o "#" \o ToString(i),
              label |-> GpuXpbdPass[k]]]
         \o xpbdRecords(i + 1, iters)

\* new ParticlesGraph(renderer, bundle, opts).passes
newGpuGraph(opts) ==
    LET backend == IF opts.mode = "flip" THEN GpuFlipPass ELSE GpuMpmPass
    IN  [k \in DOMAIN backend |-> [name |-> backend[k], label |-> backend[k]]]
        \o (IF ItersPositive(opts) THEN xpbdRecords(0, opts.xpbd.iters) ELSE << >>)

\* execute(): every pass is handed to renderer.compute, in list order
execute(passes) == [k \in DOMAIN passes |-> passes[k].label]

\* options.time.substeps || 1
SubstepsOrOne(opts) ==
    LET substeps == Get(opts.time, "substeps")
    IN  IF substeps = Undefined \/ substeps = 0 THEN 1 ELSE substeps

\* for (let i = 0; i < n; i++) this.graph.execute()
RECURSIVE executeLoop(_, _, _)
executeLoop(passes, i, n) ==
    IF i >= n THEN << >> ELSE execute(passes) \o executeLoop(passes, i + 1, n)

\* constructor arguments of the GPU facade
GpuCtorPatches ==
    { [mode |-> m, time |-> [dtMax |-> 4 * TicksPerSecond], xpbd |-> [iters |-> k]] :
        m \in {"flip", "mpm"}, k \in {0, 1} }

\* new ParticlesSim(renderer, opts)
InitGraph ==
    /\ \E opts \in GpuCtorPatches :
         LET o == mergeOptions(createDefaultOptions, opts)
         IN  /\ validOptions(o)
             /\ gOptions = o
             /\ gPasses = newGpuGraph(o)
    /\ issued = << >>
    /\ gStats = [dt |-> 0, alive |-> 0]
    /\ gCall = "new"
    /\ AllocIdle
    /\ KernelIdle
    /\ SimIdle
    /\ ParamsIdle
    /\ ResolveIdle
    /\ ExtIdle

\* update(dt)
GpuUpdate(dt) ==
    LET capped == Min(dt, Nullish(Get(gOptions.time, "dtMax"), dt))
        n == SubstepsOrOne(gOptions)
    IN  /\ issued' = executeLoop(gPasses, 0, n)
        /\ gStats' = [dt |-> capped \div n, alive |-> gOptions.counts.maxParticles]
        /\ gCall' = "update"
        /\ UNCHANGED <<gOptions, gPasses>>
        /\ UNCHANGED <<allocVars, kernelVars>>
        /\ UNCHANGED <<simVars, paramVars, resolveVars, extVars>>

\* patches sent to setParams of the GPU facade
GpuPatches ==
    { [mode |-> m] : m \in {"flip", "mpm"} }
    \cup { [time |-> [substeps |-> k]] : k \in {0, 1, 3} }
    \cup { [xpbd |-> [iters |-> k]] : k \in {0, 2} }
    \cup { [flip |-> [pressureIters |-> k]] : k \in {1, 3} }

\* setParams(patch): merge in place, validate, rebuild the graph
GpuSetParams(patch) ==
    LET merged == mergeOptions(gOptions, patch)
    IN  /\ gOptions' = merged
        /\ IF validOptions(merged)
           THEN /\ gPasses' = newGpuGraph(merged)
                /\ gCall' = "setParams"
           ELSE /\ gCall' = "setParamsThrew"
                /\ UNCHANGED gPasses
        /\ issued' = << >>
        /\ UNCHANGED gStats
        /\ UNCHANGED <<allocVars, kernelVars>>
        /\ UNCHANGED <<simVars, paramVars, resolveVars, extVars>>

NextGraph ==
    \/ \E dt \in DtValues : GpuUpdate(dt)
    \/ \E patch \in GpuPatches : GpuSetParams(patch)

SpecGraph == InitGraph /\ [][NextGraph]_vars

\* the order the FLIP passes are to be issued in: grid-clear, P2G, grid
\* forces, pressure solve, G2P, reseed
FlipOrder ==
    << "gridClearNode", "p2gApicNode", "gridForcesNode", "pressureSolveNode",
       "g2pApicNode", "reseedCompactNode" >>

\* the graph in use was built for FLIP
IsFlipGraph == \E k \in DOMAIN gPasses : gPasses[k].name = "p2gApicNode"

InFlipOrder(label) == label \in Range(FlipOrder)

\* the FLIP passes among the labels issued, in the order they were issued
FlipIssued == SelectSeq(issued, InFlipOrder)

\* C19: every FLIP step issues grid-clear, P2G, grid forces, pressure solve,
\* G2P, reseed in that order: grid-clear is the first pass of each step, every
\* pass follows its predecessor in the order, and the contact passes of a
\* step come after its last FLIP pass.
C19_FlipPassesInOrder ==
    (gCall = "update" /\ IsFlipGraph) =>
        /\ Len(FlipIssued) = Len(FlipOrder) * SubstepsOrOne(gOptions)
        /\ \A k \in DOMAIN FlipIssued :
             FlipIssued[k] = FlipOrder[((k - 1) % Len(FlipOrder)) + 1]
        /\ issued[1] = "gridClearNode"
        /\ \A k \in 2..Len(issued) :
             ~InFlipOrder(issued[k]) =>
                 issued[k - 1] = "reseedCompactNode" \/ ~InFlipOrder(issued[k - 1])

\* an update of three FLIP steps, each followed by contact passes
C19_ThreeFlipSteps ==
    /\ gCall = "update"
    /\ IsFlipGraph
    /\ SubstepsOrOne(gOptions) = 3
    /\ Len(issued) > 3 * Len(FlipOrder)

\* how many times a pass was handed to renderer.compute in the last update
TimesIssued(label) == Cardinality({ k \in DOMAIN issued : issued[k] = label })

\* options.flip.pressureIters of the GPU facade
PressureItersOf(opts) == Nullish(Get(opts.flip, "pressureIters"), 0)

\* C21: in each FLIP step the pressure-solve relaxation pass is applied
\* exactly flip.pressureIters times: an update of n steps issues
\* pressureSolveNode n * flip.pressureIters times.
C21_PressureSolveRunsItersTimes ==
    (gCall = "update" /\ IsFlipGraph) =>
        TimesIssued("pressureSolveNode")
            = SubstepsOrOne(gOptions) * PressureItersOf(gOptions)

----------------------------------------------------------------------------
(* Particles.index.ts: integrateLifetime on a bundle with all the arrays   *)
(* of ParticleArrays.  An array holds one value per particle: the vector   *)
(* or matrix stored for the slot.                                          *)

LifeSlots == 3
MaxLifeCalls == 2

\* the arrays of ParticleArrays
ParticleFields ==
    { "position", "velocity", "affine", "deformation", "mass", "material", "life" }

\* ParticlesBufferAllocator.allocate(): every array zero-filled, alive 0
allocateFull(max) ==
    [maxParticles |-> max,
     alive |-> 0,
     position |-> [i \in 0..(max - 1) |-> <<0, 0, 0>>],
     velocity |-> [i \in 0..(max - 1) |-> <<0, 0, 0>>],
     affine |-> [i \in 0..(max - 1) |-> 0],
     deformation |-> [i \in 0..(max - 1) |-> <<0, 0, 0>>],
     mass |-> [i \in 0..(max - 1) |-> 0],
     material |-> [i \in 0..(max - 1) |-> 0],
     life |-> [i \in 0..(max - 1) |-> 0]]

\* lives left to the live particles, and the dt of a call, in ticks
LifeLeft == { 1, 2, 3 }
LifeDts == { 1, 2 }

\* the diagonal of the deformation matrix of a particle, in 1/1000: as
\* allocated, and as mpmStressIntegrate leaves it for a moving particle
DeformationValues == { <<0, 0, 0>>, <<100, 110, 100>> }

\* where the passes have left the particle of slot i: every particle at a
\* place and with a velocity of its own
PlaceOf(i) == <<100 * (i + 1), 500, 0>>
VelocityOf(i) == <<0, -10 * (i + 1), 0>>

\* the bundles a call of integrateLifetime can find: alive particles with a
\* positive life, the slots above alive as allocate() left them
LifetimeBundles ==
    { [allocateFull(LifeSlots) EXCEPT
         !.alive = n,
         !.life = [i \in DOMAIN @ |-> IF i < n THEN life[i] ELSE 0],
         !.position = [i \in DOMAIN @ |-> IF i < n THEN PlaceOf(i) ELSE @[i]],
         !.velocity = [i \in DOMAIN @ |-> IF i < n THEN VelocityOf(i) ELSE @[i]],
         !.deformation = [i \in DOMAIN @ |-> IF i < n THEN deformation[i] ELSE @[i]]] :
        n \in 0..LifeSlots,
        life \in [0..(LifeSlots - 1) -> LifeLeft],
        deformation \in [0..(LifeSlots - 1) -> DeformationValues] }

InitLifetime ==
    /\ lBundle \in LifetimeBundles
    /\ lEntry = << >>
    /\ lDt = 0
    /\ lCalls = 0
    /\ SimIdle
    /\ ParamsIdle
    /\ ResolveIdle
    /\ GpuIdle
    /\ BlendIdle
    /\ AliasIdle
    /\ FeaturesIdle

\* integrateLifetime(dt)
IntegrateLifetimeStep(dt) ==
    /\ lCalls < MaxLifeCalls
    /\ lEntry' = lBundle
    /\ lBundle' = integrateLifetime(lBundle, dt)
    /\ lDt' = dt
    /\ lCalls' = lCalls + 1
    /\ UNCHANGED <<simVars, paramVars, resolveVars, gpuVars>>
    /\ UNCHANGED <<blendVars, aliasVars, featVars>>

NextLifetime == \E dt \in LifeDts : IntegrateLifetimeStep(dt)

SpecLifetime == InitLifetime /\ [][NextLifetime]_vars

\* the slots whose particle the last call found live, and those among them
\* whose life the call brought to zero or below
LiveAtEntry == { j \in DOMAIN lEntry.life : j < lEntry.alive }
ExpiredAtEntry == { j \in LiveAtEntry : lEntry.life[j] - lDt <= 0 }

\* the last live slot when the last call started
LastAtEntry == lEntry.alive - 1

\* C22: when integrateLifetime removes the particle of slot i, i not the
\* last live slot, every per-particle field of slot i afterwards (position,
\* velocity, affine, deformation, mass, material, life) equals the field the
\* former last-alive particle had, and alive is one less.  Stated for a call
\* that removes exactly one particle; the life moved is the one the call
\* has already decremented.
C22_RemovalMovesWholeParticle ==
    lCalls > 0 =>
        \A i \in ExpiredAtEntry :
            (ExpiredAtEntry = {i} /\ i # LastAtEntry) =>
                /\ lBundle.alive = lEntry.alive - 1
                /\ lBundle.life[i] = lEntry.life[LastAtEntry] - lDt
                /\ \A f \in ParticleFields \ {"life"} :
                     lBundle[f][i] = lEntry[f][LastAtEntry]

\* C26: integrateLifetime(dt) is an in-place filter: alive afterwards is the
\* number of particles whose life stays positive, and each of them is found
\* in exactly one slot below alive with its position and velocity and with
\* its life decremented once by dt.
C26_LifetimeIsFilter ==
    lCalls > 0 =>
        /\ lBundle.alive = Cardinality(LiveAtEntry \ ExpiredAtEntry)
        /\ \A j \in LiveAtEntry \ ExpiredAtEntry :
             Cardinality({ k \in DOMAIN lBundle.life :
                              /\ k < lBundle.alive
                              /\ lBundle.position[k] = lEntry.position[j]
                              /\ lBundle.velocity[k] = lEntry.velocity[j]
                              /\ lBundle.life[k] = lEntry.life[j] - lDt }) = 1
        /\ \A k \in DOMAIN lBundle.life : k < lBundle.alive => lBundle.life[k] > 0

\* a call that removed the particles of slots 0 and 1 and moved the
\* surviving last one down
C26_TwoRemovedOneMoved ==
    /\ lCalls > 0
    /\ lEntry.alive = LifeSlots
    /\ ExpiredAtEntry = {0, 1}
    /\ lBundle.alive = LifeSlots - 2
    /\ lBundle.position[0] = lEntry.position[LastAtEntry]

----------------------------------------------------------------------------
(* The velocity blend of the G2P step, for one particle: the GPU kernels   *)
(* g2pApicNode and the host pass flipIntegrateVelocity.  Velocities,       *)
(* momenta and masses are in 1/1000, picFlip in 1/100.                     *)

\* WGSL mix(a, b, t) = a * (1 - t) + b * t
mix(a, b, t) == RDiv(a * (Percent - t) + b * t, Percent)

\* lerp(a, b, t) = a + (b - a) * t of the host passes
lerp(a, b, t) == a + RDiv((b - a) * t, Percent)

\* select(0.0, 1.0 / m, m > 0.0) applied to a grid momentum u
TimesInvMass(u, m) == IF m > 0 THEN RDiv(u * 1000, m) ELSE 0

\* the velocity the kernel derives from the grid cell of the particle
velGrid(in) ==
    <<TimesInvMass(in.U, in.MassGrid), TimesInvMass(in.V, in.MassGrid),
      TimesInvMass(in.W, in.MassGrid)>>

\* g2pApicNode: newVel = mix(Vel[index].xyz, velGrid, picFlip)
g2pApicNode(in) ==
    LET g == velGrid(in)
    IN  <<mix(in.Vel[1], g[1], in.picFlip), mix(in.Vel[2], g[2], in.picFlip),
          mix(in.Vel[3], g[3], in.picFlip)>>

\* flipIntegrateVelocity: velocity = lerp(v, velocity, picFlip), v being the
\* velocity after the forces of the step
flipIntegrateVelocity(in) ==
    LET g == velGrid(in)
    IN  <<lerp(g[1], in.Vel[1], in.picFlip), lerp(g[2], in.Vel[2], in.picFlip),
          lerp(g[3], in.Vel[3], in.picFlip)>>

BlendVelocities == { <<0, 0, 0>>, <<1000, -2000, 0>>, <<-300, 400, 7>> }
BlendMomenta == { <<0, 0, 0>>, <<500, 500, -1500>>, <<3000, -1000, 2>> }
BlendMasses == { 0, 1000, 3000 }
PicFlipValues == { 0, 5, 50, Percent }
BlendKernels == { "g2pApicNode", "flipIntegrateVelocity" }

InitBlend ==
    /\ \E kernel \in BlendKernels, vel \in BlendVelocities, mom \in BlendMomenta,
          mass \in BlendMasses, picFlip \in PicFlipValues :
         g2pIn = [kernel |-> kernel, Vel |-> vel, U |-> mom[1], V |-> mom[2],
                  W |-> mom[3], MassGrid |-> mass, picFlip |-> picFlip]
    /\ g2pOut = << >>
    /\ SimIdle
    /\ ParamsIdle
    /\ ResolveIdle
    /\ GpuIdle
    /\ LifeIdle
    /\ AliasIdle
    /\ FeaturesIdle

\* one invocation of the GPU kernel
G2PStep ==
    /\ g2pIn.kernel = "g2pApicNode"
    /\ g2pOut = << >>
    /\ g2pOut' = g2pApicNode(g2pIn)
    /\ UNCHANGED g2pIn
    /\ UNCHANGED <<simVars, paramVars, resolveVars, gpuVars>>
    /\ UNCHANGED <<lifeVars, aliasVars, featVars>>

\* the host pass on one particle
HostBlendStep ==
    /\ g2pIn.kernel = "flipIntegrateVelocity"
    /\ g2pOut = << >>
    /\ g2pOut' = flipIntegrateVelocity(g2pIn)
    /\ UNCHANGED g2pIn
    /\ UNCHANGED <<simVars, paramVars, resolveVars, gpuVars>>
    /\ UNCHANGED <<lifeVars, aliasVars, featVars>>

NextBlend == G2PStep \/ HostBlendStep

SpecBlend == InitBlend /\ [][NextBlend]_vars

Between(x, a, b) == Min(a, b) <= x /\ x <= Max(a, b)

\* C24: the G2P velocity blend is linear in picFlip without extrapolation:
\* with picFlip = 0 the new velocity is the grid-derived velocity, with
\* picFlip = 1 it is the particle's pre-transfer velocity, and for picFlip
\* in [0,1] every component lies between the two.
C24_BlendLinearInPicFlip ==
    g2pOut # << >> =>
        /\ g2pIn.picFlip = 0 => g2pOut = velGrid(g2pIn)
        /\ g2pIn.picFlip = Percent => g2pOut = g2pIn.Vel
        /\ \A k \in 1..3 : Between(g2pOut[k], g2pIn.Vel[k], velGrid(g2pIn)[k])

----------------------------------------------------------------------------
(* Particles.params.ts by reference.  The sections above model options as  *)
(* values; here every object and array of the module is a cell of a heap,  *)
(* so that a spread ({...x}, [...x]) copies one level and keeps the nested *)
(* references, Object.assign writes into the object it is given, and two   *)
(* options objects can be asked whether they share anything.  A cell is    *)
(* [vals, refs]: its primitive fields, and the addresses of its nested     *)
(* objects and arrays.                                                     *)

NoFields == [k \in {} |-> 0]

Obj(vals, refs) == [vals |-> vals, refs |-> refs]

Field(a, k) == a \o "." \o k

\* keys whose value is an array or a nested object of a section
NestedKeys == {"res", "reseed", "detClamp", "center", "half", "compliance"}

\* keys of the options whose value is itself an array
ArrayKeys == {"gravity", "wind"}

Plain(r) == [k \in DOMAIN r \ NestedKeys |-> r[k]]

Links(a, r) == [k \in DOMAIN r \cap NestedKeys |-> Field(a, k)]

\* the arrays of the default sections the value model leaves out
DEFAULT_ARRAYS ==
    [flip |-> [reseed |-> <<40, 60>>],
     mpm |-> [detClamp |-> <<20, 500>>],
     emit |-> [center |-> <<0, 500, 0>>, half |-> <<200, 200, 200>>]]

\* the module constants DEFAULT_COUNTS .. DEFAULT_RENDER, lines 73-125
ConstantSections ==
    [counts |-> DEFAULT_COUNTS, grid |-> DEFAULT_GRID, time |-> DEFAULT_TIME,
     flip |-> ObjectAssign(DEFAULT_FLIP, DEFAULT_ARRAYS.flip),
     mpm |-> ObjectAssign(DEFAULT_MPM, DEFAULT_ARRAYS.mpm),
     xpbd |-> DEFAULT_XPBD,
     emit |-> ObjectAssign(DEFAULT_EMIT, DEFAULT_ARRAYS.emit),
     render |-> DEFAULT_RENDER]

ConstantName(k) ==
    [counts |-> "DEFAULT_COUNTS", grid |-> "DEFAULT_GRID",
     time |-> "DEFAULT_TIME", gravity |-> "DEFAULT_GRAVITY",
     wind |-> "DEFAULT_WIND", flip |-> "DEFAULT_FLIP", mpm |-> "DEFAULT_MPM",
     xpbd |-> "DEFAULT_XPBD", emit |-> "DEFAULT_EMIT",
     render |-> "DEFAULT_RENDER"][k]

ConstantCells ==
    UNION { { <<k, j>> : j \in DOMAIN ConstantSections[k] \cap NestedKeys } :
            k \in DOMAIN ConstantSections }

ConstantsHeap ==
    [a \in { ConstantName(k) : k \in DOMAIN ConstantSections } |->
        LET k == CHOOSE k \in DOMAIN ConstantSections : ConstantName(k) = a
        IN  Obj(Plain(ConstantSections[k]), Links(a, ConstantSections[k]))]
    @@ [a \in { Field(ConstantName(c[1]), c[2]) : c \in ConstantCells } |->
        LET c == CHOOSE c \in ConstantCells : Field(ConstantName(c[1]), c[2]) = a
        IN  Obj(ConstantSections[c[1]][c[2]], NoFields)]
    @@ ("DEFAULT_GRAVITY" :> Obj(DEFAULT_GRAVITY, NoFields))
    @@ ("DEFAULT_WIND" :> Obj(DEFAULT_WIND, NoFields))

\* keys createDefaultOptions and DEFAULT_OPTIONS copy with one spread
SpreadKeys ==
    {"counts", "grid", "time", "gravity", "wind", "flip", "mpm", "emit",
     "render"}

\* const DEFAULT_OPTIONS = { mode: 'flip', counts: { ...DEFAULT_COUNTS }, ..,
\* xpbd: { ...DEFAULT_XPBD }, .., colliders: [] }: every section is a new
\* object, what a section nests is the constant's own array or object
DefaultOptionsHeap(h) ==
    ("DEFAULT_OPTIONS" :>
        Obj([mode |-> DEFAULT_OPTIONS.mode],
            [k \in SpreadKeys \cup {"xpbd", "colliders"} |->
                Field("DEFAULT_OPTIONS", k)]))
    @@ [a \in { Field("DEFAULT_OPTIONS", k) : k \in SpreadKeys \cup {"xpbd"} } |->
        h[ConstantName(CHOOSE k \in SpreadKeys \cup {"xpbd"} :
                            Field("DEFAULT_OPTIONS", k) = a)]]
    @@ (Field("DEFAULT_OPTIONS", "colliders") :> Obj(NoFields, NoFields))
    @@ h

\* an object literal { mode, section: {..}, gravity: [..], colliders: [..] }
\* stored at address a: one cell per object and array of the literal
LiteralSections(r) == DOMAIN r \ {"mode", "colliders"}

LiteralCells(r) ==
    UNION { { <<k, j>> : j \in DOMAIN r[k] \cap NestedKeys } :
            k \in LiteralSections(r) \ ArrayKeys }

SectionObj(a, k, v) ==
    IF k \in ArrayKeys THEN Obj(v, NoFields) ELSE Obj(Plain(v), Links(a, v))

ColliderListHeap(a, list) ==
    (a :> Obj(NoFields, [i \in DOMAIN list |-> Field(a, ToString(i))]))
    @@ [x \in { Field(a, ToString(i)) : i \in DOMAIN list } |->
        LET i == CHOOSE i \in DOMAIN list : Field(a, ToString(i)) = x
        IN  Obj([kind |-> list[i].kind], [params |-> Field(x, "params")])]
    @@ [x \in { Field(Field(a, ToString(i)), "params") : i \in DOMAIN list } |->
        LET i == CHOOSE i \in DOMAIN list :
                     Field(Field(a, ToString(i)), "params") = x
        IN  Obj(list[i].params, NoFields)]

LiteralHeap(a, r) ==
    (a :> Obj([k \in DOMAIN r \cap {"mode"} |-> r[k]],
              [k \in DOMAIN r \ {"mode"} |-> Field(a, k)]))
    @@ [x \in { Field(a, k) : k \in LiteralSections(r) } |->
        LET k == CHOOSE k \in LiteralSections(r) : Field(a, k) = x
        IN  SectionObj(x, k, r[k])]
    @@ [x \in { Field(Field(a, c[1]), c[2]) : c \in LiteralCells(r) } |->
        LET c == CHOOSE c \in LiteralCells(r) : Field(Field(a, c[1]), c[2]) = x
        IN  Obj(r[c[1]][c[2]], NoFields)]
    @@ (IF "colliders" \in DOMAIN r
        THEN ColliderListHeap(Field(a, "colliders"), r.colliders)
        ELSE NoFields)

\* export const PRESETS = { water_flip: {..}, .. }, lines 225-257
RECURSIVE PresetsHeap(_)
PresetsHeap(names) ==
    IF names = {}
    THEN "PRESETS" :> Obj(NoFields, [n \in DOMAIN PRESETS |-> Field("PRESETS", n)])
    ELSE LET n == CHOOSE n \in names : TRUE
         IN  LiteralHeap(Field("PRESETS", n), PRESETS[n])
             @@ PresetsHeap(names \ {n})

\* patches a caller hands to mergeOptions: literals of the caller's own
CallerPatches ==
    [patchSections |->
        [mode |-> "mpm", counts |-> [maxParticles |-> 2],
         grid |-> [dx |-> 10, res |-> <<2, 2, 2>>],
         gravity |-> <<0, -100, 0>>],
     patchNested |->
        [xpbd |-> [iters |-> 2, compliance |-> [contact |-> 3, volume |-> 4]],
         flip |-> [reseed |-> <<10, 20>>],
         emit |-> [rate |-> 10, center |-> <<100, 100, 100>>],
         wind |-> <<1, 0, 0>>],
     patchColliders |->
        [colliders |->
            << [kind |-> "sphere",
                params |-> [center |-> <<0, 0, 0>>, radius |-> 100]] >>]]

RECURSIVE PatchesHeap(_)
PatchesHeap(names) ==
    IF names = {}
    THEN NoFields
    ELSE LET n == CHOOSE n \in names : TRUE
         IN  LiteralHeap(n, CallerPatches[n]) @@ PatchesHeap(names \ {n})

\* the heap once the module is loaded and the caller's literals exist
ModuleHeap ==
    DefaultOptionsHeap(ConstantsHeap) @@ PresetsHeap(DOMAIN PRESETS)
    @@ PatchesHeap(DOMAIN CallerPatches)

RECURSIVE DeepValue(_, _)
DeepValue(h, a) ==
    [vals |-> h[a].vals,
     refs |-> [k \in DOMAIN h[a].refs |-> DeepValue(h, h[a].refs[k])]]

RECURSIVE Reach(_, _)
Reach(h, a) ==
    {a} \cup UNION { Reach(h, h[a].refs[k]) : k \in DOMAIN h[a].refs }

\* an address no cell of the heap has: the heap only grows
NewAddress(h) == "@" \o ToString(Cardinality(DOMAIN h))

\* a variant that hands the default's own flip section out (no spread)
createDefaultOptionsSharedFlip(h, out) ==
    (out :> Obj([mode |-> h["DEFAULT_OPTIONS"].vals.mode],
                [k \in SpreadKeys \cup {"xpbd", "colliders"} |->
                    IF k = "flip" THEN h["DEFAULT_OPTIONS"].refs.flip
                    ELSE Field(out, k)]))
    @@ [a \in { Field(out, k) : k \in SpreadKeys } |->
        h[h["DEFAULT_OPTIONS"].refs[
              CHOOSE k \in SpreadKeys : Field(out, k) = a]]]
    @@ (Field(out, "xpbd") :>
        Obj([k \in {"iters", "friction", "restitution", "shock"} |->
                h[h["DEFAULT_OPTIONS"].refs.xpbd].vals[k]],
            [compliance |-> Field(Field(out, "xpbd"), "compliance")]))
    @@ (Field(Field(out, "xpbd"), "compliance") :>
        h[h[h["DEFAULT_OPTIONS"].refs.xpbd].refs.compliance])
    @@ (Field(out, "colliders") :> Obj(NoFields, NoFields))
    @@ h

\* createDefaultOptions(), lines 145-165, returning its object at address out:
\* one spread per section, xpbd field by field with a spread of compliance,
\* a new empty colliders array
createDefaultOptionsOnHeap(h, out) ==
    (out :> Obj([mode |-> h["DEFAULT_OPTIONS"].vals.mode],
                [k \in SpreadKeys \cup {"xpbd", "colliders"} |-> Field(out, k)]))
    @@ [a \in { Field(out, k) : k \in SpreadKeys } |->
        h[h["DEFAULT_OPTIONS"].refs[
              CHOOSE k \in SpreadKeys : Field(out, k) = a]]]
    @@ (Field(out, "xpbd") :>
        Obj([k \in {"iters", "friction", "restitution", "shock"} |->
                h[h["DEFAULT_OPTIONS"].refs.xpbd].vals[k]],
            [compliance |-> Field(Field(out, "xpbd"), "compliance")]))
    @@ (Field(Field(out, "xpbd"), "compliance") :>
        h[h[h["DEFAULT_OPTIONS"].refs.xpbd].refs.compliance])
    @@ (Field(out, "colliders") :> Obj(NoFields, NoFields))
    @@ h

\* if (patch.mode) target.mode = patch.mode
assignMode(h, t, p) ==
    IF "mode" \in DOMAIN h[p].vals
    THEN [h EXCEPT ![t].vals = ObjectAssign(@, [mode |-> h[p].vals.mode])]
    ELSE h

\* if (patch.k) Object.assign(target.k, patch.k)
assignInPlace(h, t, p, k) ==
    IF k \in DOMAIN h[p].refs
    THEN [h EXCEPT ![h[t].refs[k]] =
             Obj(ObjectAssign(@.vals, h[h[p].refs[k]].vals),
                 ObjectAssign(@.refs, h[h[p].refs[k]].refs))]
    ELSE h

\* if (patch.k) target.k = [...patch.k]
replaceArray(h, t, p, k) ==
    IF k \in DOMAIN h[p].refs
    THEN (NewAddress(h) :> h[h[p].refs[k]])
         @@ [h EXCEPT ![t].refs = ObjectAssign(@, k :> NewAddress(h))]
    ELSE h

\* the compliance object the merge writes to:
\* target.xpbd.compliance ?? (target.xpbd.compliance = { contact: 0, volume: 0 })
complianceTarget(h, tx) ==
    IF "compliance" \in DOMAIN h[tx].refs THEN h[tx].refs.compliance
    ELSE NewAddress(h)

writeCompliance(h, tx, pc) ==
    LET fields == { k \in {"contact", "volume"} : IsNumber(Get(h[pc].vals, k)) }
        cell == IF "compliance" \in DOMAIN h[tx].refs
                THEN h[h[tx].refs.compliance]
                ELSE Obj([contact |-> 0, volume |-> 0], NoFields)
    IN  (complianceTarget(h, tx) :>
            Obj(ObjectAssign(cell.vals, [k \in fields |-> h[pc].vals[k]]),
                cell.refs))
        @@ [h EXCEPT ![tx].refs =
               ObjectAssign(@, [compliance |-> complianceTarget(h, tx)])]

\* the fields of xpbd taken one by one, lines 177-189
writeXpbd(h, tx, px) ==
    LET numbers == { k \in {"friction", "restitution", "shock"} :
                        IsNumber(Get(h[px].vals, k)) }
    IN  [h EXCEPT ![tx].vals =
            ObjectAssign(
                ObjectAssign(@, [iters |-> Nullish(Get(h[px].vals, "iters"),
                                                  Get(@, "iters"))]),
                [k \in numbers |-> h[px].vals[k]])]

mergeXpbdInPlace(h, t, p) ==
    IF "xpbd" \in DOMAIN h[p].refs
    THEN IF "compliance" \in DOMAIN h[h[p].refs.xpbd].refs
         THEN writeCompliance(writeXpbd(h, h[t].refs.xpbd, h[p].refs.xpbd),
                              h[t].refs.xpbd,
                              h[h[p].refs.xpbd].refs.compliance)
         ELSE writeXpbd(h, h[t].refs.xpbd, h[p].refs.xpbd)
    ELSE h

\* patch.colliders.map((c) => ({ ...c, params: { ...c.params } })) stored at a
mapColliders(h, a, list) ==
    (a :> Obj(NoFields, [i \in DOMAIN list.refs |-> Field(a, ToString(i))]))
    @@ [x \in { Field(a, ToString(i)) : i \in DOMAIN list.refs } |->
        LET i == CHOOSE i \in DOMAIN list.refs : Field(a, ToString(i)) = x
        IN  Obj(h[list.refs[i]].vals,
                ObjectAssign(h[list.refs[i]].refs,
                             [params |-> Field(x, "params")]))]
    @@ [x \in { Field(Field(a, ToString(i)), "params") : i \in DOMAIN list.refs } |->
        LET i == CHOOSE i \in DOMAIN list.refs :
                     Field(Field(a, ToString(i)), "params") = x
        IN  h[h[list.refs[i]].refs.params]]

\* if (patch.colliders) target.colliders = patch.colliders.map(..)
replaceColliders(h, t, p) ==
    IF "colliders" \in DOMAIN h[p].refs
    THEN mapColliders(h, NewAddress(h), h[h[p].refs.colliders])
         @@ [h EXCEPT ![t].refs = ObjectAssign(@, [colliders |-> NewAddress(h)])]
    ELSE h

\* mergeOptions(target, patch), lines 167-194, statement by statement on the
\* heap; p = "" is no patch (if (!patch) return target)
mergeOptionsInPlace(h, t, p) ==
    IF p = "" THEN h
    ELSE
    replaceColliders(
     assignInPlace(
      assignInPlace(
       mergeXpbdInPlace(
        assignInPlace(
         assignInPlace(
          replaceArray(
           replaceArray(
            assignInPlace(
             assignInPlace(
              assignInPlace(
               assignMode(h, t, p),
              t, p, "counts"),
             t, p, "grid"),
            t, p, "time"),
           t, p, "gravity"),
          t, p, "wind"),
         t, p, "flip"),
        t, p, "mpm"),
       t, p),
      t, p, "emit"),
     t, p, "render"),
    t, p)

\* the cells of h one call of mergeOptions(t, p) assigns a field of
mergeWrites(h, t, p) ==
    IF p = "" THEN {}
    ELSE (IF "mode" \in DOMAIN h[p].vals
             \/ DOMAIN h[p].refs \cap (ArrayKeys \cup {"colliders"}) # {}
          THEN {t} ELSE {})
         \cup { h[t].refs[k] :
                k \in DOMAIN h[p].refs \cap (SpreadKeys \ ArrayKeys) }
         \cup (IF "xpbd" \in DOMAIN h[p].refs
               THEN {h[t].refs.xpbd}
                    \cup (IF "compliance" \in DOMAIN h[h[p].refs.xpbd].refs
                          THEN {complianceTarget(h, h[t].refs.xpbd)} ELSE {})
               ELSE {})

\* applyPreset(opts, name) = mergeOptions(opts, PRESETS[name]), line 262
presetAddress(h, name) ==
    IF name \in DOMAIN h["PRESETS"].refs THEN h["PRESETS"].refs[name] ELSE ""

applyPresetInPlace(h, t, name) == mergeOptionsInPlace(h, t, presetAddress(h, name))

MaxOptionsObjects == 3
MaxMergeCalls == 2

InitAlias ==
    /\ oHeap = ModuleHeap
    /\ oRoots = << >>
    /\ oTarget = ""
    /\ oWritten = {}
    /\ oCalls = 0
    /\ SimIdle
    /\ ParamsIdle
    /\ ResolveIdle
    /\ GpuIdle
    /\ LifeIdle
    /\ BlendIdle
    /\ FeaturesIdle

AliasFrame ==
    /\ UNCHANGED <<simVars, paramVars, resolveVars, gpuVars>>
    /\ UNCHANGED <<lifeVars, blendVars, featVars>>

\* const opts = createDefaultOptions()
CreateOptions ==
    /\ Len(oRoots) < MaxOptionsObjects
    /\ oHeap' = createDefaultOptionsOnHeap(oHeap, NewAddress(oHeap))
    /\ oRoots' = Append(oRoots, NewAddress(oHeap))
    /\ UNCHANGED <<oTarget, oWritten, oCalls>>
    /\ AliasFrame

\* mergeOptions(opts, patch) on the one object the caller merges into
MergeInPlace(t, p) ==
    /\ oCalls < MaxMergeCalls
    /\ t \in Range(oRoots)
    /\ oTarget \in {"", t}
    /\ oHeap' = mergeOptionsInPlace(oHeap, t, p)
    /\ oWritten' = oWritten \cup mergeWrites(oHeap, t, p)
    /\ oTarget' = t
    /\ oCalls' = oCalls + 1
    /\ UNCHANGED oRoots
    /\ AliasFrame

\* applyPreset(opts, name) on it
ApplyPresetInPlace(t, name) ==
    /\ oCalls < MaxMergeCalls
    /\ t \in Range(oRoots)
    /\ oTarget \in {"", t}
    /\ oHeap' = applyPresetInPlace(oHeap, t, name)
    /\ oWritten' = oWritten \cup mergeWrites(oHeap, t, presetAddress(oHeap, name))
    /\ oTarget' = t
    /\ oCalls' = oCalls + 1
    /\ UNCHANGED oRoots
    /\ AliasFrame

NextAlias ==
    \/ CreateOptions
    \/ \E t \in Range(oRoots), p \in DOMAIN CallerPatches : MergeInPlace(t, p)
    \/ \E t \in Range(oRoots), name \in PresetNames : ApplyPresetInPlace(t, name)

SpecAlias == InitAlias /\ [][NextAlias]_vars

\* what the merges must leave alone: the defaults, the presets and every
\* options object other than the one merged into
ProtectedRoots == {"DEFAULT_OPTIONS", "PRESETS"} \cup (Range(oRoots) \ {oTarget})

\* C29: after any sequence of mergeOptions and applyPreset calls on one
\* options object obtained from createDefaultOptions(), the defaults, the
\* PRESETS table and every other options object obtained from
\* createDefaultOptions(), earlier or later, hold their original values, and
\* no object or array a merge wrote to is reachable from any of them.
C29_MergesLeaveOthersAlone ==
    oHeap # << >> =>
        /\ DeepValue(oHeap, "DEFAULT_OPTIONS") = DeepValue(ModuleHeap, "DEFAULT_OPTIONS")
        /\ DeepValue(oHeap, "PRESETS") = DeepValue(ModuleHeap, "PRESETS")
        /\ \A r \in Range(oRoots) \ {oTarget} :
               DeepValue(oHeap, r) = DeepValue(ModuleHeap, "DEFAULT_OPTIONS")
        /\ \A r \in ProtectedRoots : Reach(oHeap, r) \cap oWritten = {}

\* two merges have changed the target, one of them a preset's in-place
\* write of a section, with another options object made before the first
\* merge and one made after the last
C29_MergedBetweenTwoOthers ==
    /\ oCalls = MaxMergeCalls
    /\ Len(oRoots) = MaxOptionsObjects
    /\ oTarget = oRoots[2]
    /\ oHeap[oHeap[oTarget].refs.flip].vals.pressureIters = 64
    /\ oHeap[oHeap[oTarget].refs.grid].refs.res = "patchSections.grid.res"
    /\ oHeap[NewAddress(ModuleHeap)].vals.mode = "flip"

----------------------------------------------------------------------------
(* src/index.ts: the feature registry of Convas.  attachFeature is async: *)
(* it registers the feature, invokes feature.attach(this) and awaits it;   *)
(* the promise settles in a later step, between any other calls.  An entry *)
(* of fCalls is one invocation of attach(): the id of its feature, how it  *)
(* has settled, and how it stood when detach() was invoked on the feature. *)

FeatureIds == {"orbit", "bloom"}
MaxFeatureOps == 4

NoFeatures == [id \in {} |-> 0]

IsRegistered(i) == \E id \in DOMAIN features : features[id] = i

\* async attachFeature(feature), lines 226-230, up to its await
AttachFeature(id) ==
    /\ fOps < MaxFeatureOps
    /\ fOps' = fOps + 1
    /\ IF id \in DOMAIN features
       THEN UNCHANGED <<features, fCalls>>
       ELSE /\ features' = (id :> (Len(fCalls) + 1)) @@ features
            /\ fCalls' = Append(fCalls, [id |-> id, outcome |-> "pending",
                                         detach |-> "none"])
    /\ UNCHANGED <<simVars, paramVars, resolveVars, gpuVars>>
    /\ UNCHANGED <<lifeVars, blendVars, aliasVars>>

\* the promise of feature.attach(this) fulfils: attachFeature returns
AttachResolves(i) ==
    /\ i \in DOMAIN fCalls
    /\ fCalls[i].outcome = "pending"
    /\ fCalls' = [fCalls EXCEPT ![i].outcome = "resolved"]
    /\ UNCHANGED <<features, fOps>>
    /\ UNCHANGED <<simVars, paramVars, resolveVars, gpuVars>>
    /\ UNCHANGED <<lifeVars, blendVars, aliasVars>>

\* the promise rejects: the await throws, attachFeature's promise rejects
\* (the constructor logs it, lines 74-78); nothing else runs
AttachRejects(i) ==
    /\ i \in DOMAIN fCalls
    /\ fCalls[i].outcome = "pending"
    /\ fCalls' = [fCalls EXCEPT ![i].outcome = "rejected"]
    /\ UNCHANGED <<features, fOps>>
    /\ UNCHANGED <<simVars, paramVars, resolveVars, gpuVars>>
    /\ UNCHANGED <<lifeVars, blendVars, aliasVars>>

\* feature.detach?.(this) on the features registered under ids
detachAll(calls, ids) ==
    [i \in DOMAIN calls |->
        IF \E id \in ids : features[id] = i
        THEN [calls[i] EXCEPT !.detach = calls[i].outcome]
        ELSE calls[i]]

\* detachFeature(id), lines 232-237
DetachFeature(id) ==
    /\ fOps < MaxFeatureOps
    /\ fOps' = fOps + 1
    /\ IF id \notin DOMAIN features
       THEN UNCHANGED <<features, fCalls>>
       ELSE /\ fCalls' = detachAll(fCalls, {id})
            /\ features' = [k \in DOMAIN features \ {id} |-> features[k]]
    /\ UNCHANGED <<simVars, paramVars, resolveVars, gpuVars>>
    /\ UNCHANGED <<lifeVars, blendVars, aliasVars>>

\* dispose(), lines 239-247: detach every registered feature, clear
DisposeConvas ==
    /\ fOps < MaxFeatureOps
    /\ fOps' = fOps + 1
    /\ fCalls' = detachAll(fCalls, DOMAIN features)
    /\ features' = NoFeatures
    /\ UNCHANGED <<simVars, paramVars, resolveVars, gpuVars>>
    /\ UNCHANGED <<lifeVars, blendVars, aliasVars>>

InitFeatures ==
    /\ features = NoFeatures
    /\ fCalls = << >>
    /\ fOps = 0
    /\ SimIdle
    /\ ParamsIdle
    /\ ResolveIdle
    /\ GpuIdle
    /\ LifeIdle
    /\ BlendIdle
    /\ AliasIdle

NextFeatures ==
    \/ \E id \in FeatureIds : AttachFeature(id)
    \/ \E i \in DOMAIN fCalls : AttachResolves(i)
    \/ \E i \in DOMAIN fCalls : AttachRejects(i)
    \/ \E id \in FeatureIds : DetachFeature(id)
    \/ DisposeConvas

SpecFeatures == InitFeatures /\ [][NextFeatures]_vars

\* attach() calls of a feature id on which detach() has not been invoked
LiveCalls(id) == { i \in DOMAIN fCalls : fCalls[i].id = id /\ fCalls[i].detach = "none" }

\* C30: under any interleaving of attachFeature / detachFeature calls with
\* attach() completions and rejections, attach() is invoked at most once per
\* registered feature id, the registry holds exactly the features whose
\* attach() did not fail and that have not been detached, and detach() is
\* never invoked on a feature that was not successfully attached.
C30_RegistryHoldsAttachedFeatures ==
    /\ \A id \in DOMAIN features : Cardinality(LiveCalls(id)) <= 1
    /\ \A i \in DOMAIN fCalls :
           IsRegistered(i) <=> (fCalls[i].outcome # "rejected"
                                /\ fCalls[i].detach = "none")
    /\ \A i \in DOMAIN fCalls : fCalls[i].detach \in {"none", "resolved"}

----------------------------------------------------------------------------
(* STAGE/stage.ts: ParticlesBufferAllocator on a GPUDevice.  The device is *)
(* the free memory it has left and the buffers alive on it; createBuffer   *)
(* throws when the request does not fit.                                   *)

MaxAllocations == 2

\* Math.ceil(size / align) * align
PadTo(size, align) == ((size + align - 1) \div align) * align

BufferAlign == 256

\* the createBuffer requests of allocateAll, in the order they are made
allocationRequests(opts) ==
    LET particleStride == 16 * 2 + 16 * 6
        particleBytes == opts.counts.maxParticles * particleStride
        gridCells == opts.grid.res[1] * opts.grid.res[2] * opts.grid.res[3]
        gridStride == 16 * 4
        gridBytes == gridCells * gridStride
        hashStride == 16 * 2
        hashBytes == gridCells * hashStride
    IN  << [label |-> "SSBO.Pos", bytes |-> particleBytes],
           [label |-> "SSBO.Vel", bytes |-> particleBytes],
           [label |-> "SSBO.C", bytes |-> particleBytes],
           [label |-> "SSBO.F", bytes |-> particleBytes],
           [label |-> "SSBO.Mass", bytes |-> particleBytes],
           [label |-> "SSBO.MatP", bytes |-> particleBytes],
           [label |-> "Grid.U", bytes |-> gridBytes],
           [label |-> "Grid.V", bytes |-> gridBytes],
           [label |-> "Grid.W", bytes |-> gridBytes],
           [label |-> "Grid.Mass", bytes |-> gridBytes],
           [label |-> "Grid.Pressure", bytes |-> gridBytes],
           [label |-> "Grid.Divergence", bytes |-> gridBytes],
           [label |-> "Grid.Flags", bytes |-> gridCells * 4],
           [label |-> "Hash.CellStart", bytes |-> hashBytes],
           [label |-> "Hash.CellCount", bytes |-> hashBytes],
           [label |-> "Hash.Indices", bytes |-> hashBytes] >>

\* createStorage(name, size, usage) for request k of allocation `owner`;
\* st is the device and whether an earlier request already threw
createStorage(st, request, owner) ==
    LET padded == PadTo(request.bytes, BufferAlign)
    IN  IF st.threw THEN st
        ELSE IF padded > st.device.free THEN [st EXCEPT !.threw = TRUE]
        ELSE [st EXCEPT
                !.device.free = @ - padded,
                !.device.buffers = @ \cup {[label |-> request.label, size |-> padded,
                                            owner |-> owner]}]

\* allocateAll(): the requests are made one after the other; a throw ends it
RECURSIVE allocateFrom(_, _, _, _)
allocateFrom(st, requests, k, owner) ==
    IF k > Len(requests) THEN st
    ELSE allocateFrom(createStorage(st, requests[k], owner), requests, k + 1, owner)

allocateAll(dev, opts, owner) ==
    allocateFrom([device |-> dev, threw |-> FALSE], allocationRequests(opts), 1, owner)

\* the buffers of allocation `owner` alive on the device
BuffersOf(dev, owner) == { b \in dev.buffers : b.owner = owner }

RECURSIVE TotalSize(_)
TotalSize(buffers) ==
    IF buffers = {} THEN 0
    ELSE LET b == CHOOSE x \in buffers : TRUE
         IN  b.size + TotalSize(buffers \ {b})

\* memory of the devices the allocator is constructed on
DeviceBudgets == { 1024, 3328, 4096, 5632, 7168, 16384 }

\* constructor arguments of the allocator
AllocatorPatches ==
    { [counts |-> [maxParticles |-> n], grid |-> [res |-> r]] :
        n \in {1, 3, 5}, r \in { <<1, 1, 1>>, <<2, 2, 2>> } }

InitAlloc ==
    /\ \E free \in DeviceBudgets : device = [free |-> free, buffers |-> {}]
    /\ allocators = << >>
    /\ allocOutcome = [status |-> "none", attempt |-> 0]
    /\ GraphIdle
    /\ KernelIdle
    /\ SimIdle
    /\ ParamsIdle
    /\ ResolveIdle
    /\ ExtIdle

\* new ParticlesBufferAllocator(device, opts)
NewAllocator(opts) ==
    /\ allocOutcome.attempt < MaxAllocations
    /\ LET owner == allocOutcome.attempt + 1
           normalized == mergeOptions(createDefaultOptions, opts)
           st == allocateAll(device, normalized, owner)
       IN  /\ device' = st.device
           /\ IF st.threw
              THEN /\ allocOutcome' = [status |-> "threw", attempt |-> owner]
                   /\ UNCHANGED allocators
              ELSE /\ allocOutcome' = [status |-> "returned", attempt |-> owner]
                   /\ allocators' = Append(allocators, owner)
    /\ UNCHANGED <<graphVars, kernelVars>>
    /\ UNCHANGED <<simVars, paramVars, resolveVars, extVars>>

\* allocator.dispose(): destroy() on every buffer of its bundle
Dispose(k) ==
    /\ k \in DOMAIN allocators
    /\ BuffersOf(device, allocators[k]) # {}
    /\ device' = [free |-> device.free + TotalSize(BuffersOf(device, allocators[k])),
                  buffers |-> device.buffers \ BuffersOf(device, allocators[k])]
    /\ allocOutcome' = [status |-> "disposed", attempt |-> allocOutcome.attempt]
    /\ UNCHANGED allocators
    /\ UNCHANGED <<graphVars, kernelVars>>
    /\ UNCHANGED <<simVars, paramVars, resolveVars, extVars>>

NextAlloc ==
    \/ \E opts \in AllocatorPatches : NewAllocator(opts)
    \/ \E k \in 1..MaxAllocations : Dispose(k)

SpecAlloc == InitAlloc /\ [][NextAlloc]_vars

\* C17: when a createBuffer call fails while the allocator builds its bundle,
\* the constructor throws and none of the buffers created earlier in that
\* allocation is left alive on the device.
C17_AllocationAllOrNothing ==
    allocOutcome.status = "threw" => BuffersOf(device, allocOutcome.attempt) = {}

----------------------------------------------------------------------------
(* Particles.backends.ts: the grid-clear and P2G dispatches of one         *)
(* execute(), invocation by invocation.  Dispatches run one after the      *)
(* other; the invocations of one dispatch run concurrently, and an         *)
(* atomicAdd is one indivisible step.  Buffers are modelled by the x lane  *)
(* of their first elements; masses and velocities are whole numbers.       *)

KernelParticles == 2
MaxExecutes == 2

\* the options the kernels are built from: two particles, two cells along x
KernelOptions ==
    mergeOptions(createDefaultOptions,
                 [counts |-> [maxParticles |-> KernelParticles],
                  grid |-> [res |-> <<2, 1, 1>>]])

KernelCells ==
    KernelOptions.grid.res[1] * KernelOptions.grid.res[2] * KernelOptions.grid.res[3]

\* buffer elements the kernels address: one per cell, one per particle
Elements == 0..(Max(KernelCells, KernelParticles) - 1)
Invocations == 0..(KernelParticles - 1)

\* vec3<u32>(floor(x / params.dx)): the conversion to u32 takes a negative
\* value to 0; flat = cell.x + cell.y * gridRes.x + cell.z * gridRes.x * gridRes.y
flatCell(pos, opts) ==
    LET cell == [k \in 1..3 |-> Max(0, pos[k] \div opts.grid.dx)]
    IN  cell[1] + cell[2] * opts.grid.res[1]
        + cell[3] * opts.grid.res[1] * opts.grid.res[2]

\* the dispatches of execute() followed here: grid clear, P2G, and the
\* passes after P2G taken together
KernelPasses == << "gridClearNode", "p2g", "afterP2G" >>

NotStarted == [pc |-> 0, flat |-> 0, mass |-> 0, vel |-> <<0, 0, 0>>]

\* the statements of one P2G invocation: the loads, then four atomicAdd
P2GStatements == 5

\* positions inside the grid (in 1/1000; dx is 20), one of them below x = 0
KernelPositions == { <<-5, 5, 5>>, <<10, 5, 5>>, <<30, 5, 5>> }
KernelVelocities == { <<0, 0, 0>>, <<1, -2, 0>> }
\* particle masses: the zero of a fresh buffer, or an uploaded mass
KernelMasses == { 0, 2 }

\* The kernel text declares Mass as the particles' read-only mass array and
\* MassGrid as the grid's; the binding table attaches the grid's mass buffer
\* under the name Mass.  Which buffer Mass[...] reaches is left to the build.
MassBindings == { "declared", "bound" }

InitKernel ==
    /\ \E mode \in {"flip", "mpm"}, mass \in MassBindings :
         gpuKernel = [mode |-> mode, Mass |-> mass]
    /\ \E pos \in [Invocations -> KernelPositions],
          vel \in KernelVelocities, m \in KernelMasses :
         gpuParticles = [Pos |-> pos,
                         Vel |-> [i \in Invocations |-> vel],
                         Mass |-> [e \in Elements |-> IF e \in Invocations THEN m ELSE 0]]
    /\ gpuGrid = [U |-> [e \in Elements |-> 0], V |-> [e \in Elements |-> 0],
                  W |-> [e \in Elements |-> 0], Mass |-> [e \in Elements |-> 0]]
    /\ gpuPass = 1
    /\ gpuProgress = [e \in Elements |-> NotStarted]
    /\ gpuExecutes = 0
    /\ GraphIdle
    /\ AllocIdle
    /\ SimIdle
    /\ ParamsIdle
    /\ ResolveIdle
    /\ ExtIdle

KernelFrame ==
    /\ UNCHANGED <<graphVars, allocVars>>
    /\ UNCHANGED <<simVars, paramVars, resolveVars, extVars>>

\* gridClear(index): one invocation zeroes its element of every grid buffer
GridClear(index) ==
    /\ KernelPasses[gpuPass] = "gridClearNode"
    /\ index \in Elements
    /\ gpuProgress[index].pc = 0
    /\ gpuGrid' = [U |-> [gpuGrid.U EXCEPT ![index] = 0],
                   V |-> [gpuGrid.V EXCEPT ![index] = 0],
                   W |-> [gpuGrid.W EXCEPT ![index] = 0],
                   Mass |-> [gpuGrid.Mass EXCEPT ![index] = 0]]
    /\ gpuProgress' = [gpuProgress EXCEPT ![index].pc = 1]
    /\ UNCHANGED <<gpuKernel, gpuParticles, gpuPass, gpuExecutes>>
    /\ KernelFrame

\* the buffer Mass[...] reaches in the P2G kernel
MassBuffer == IF gpuKernel.Mass = "declared" THEN gpuParticles.Mass ELSE gpuGrid.Mass

\* atomicAdd(&Mass[flat].x, amount)
AddToMass(flat, amount) ==
    IF gpuKernel.Mass = "declared"
    THEN /\ gpuParticles' = [gpuParticles EXCEPT !.Mass[flat] = @ + amount]
         /\ UNCHANGED gpuGrid
    ELSE /\ gpuGrid' = [gpuGrid EXCEPT !.Mass[flat] = @ + amount]
         /\ UNCHANGED gpuParticles

\* p2gApicNode(index) / mpmP2gNode(index): the next statement of one invocation
P2GStep(index) ==
    /\ KernelPasses[gpuPass] = "p2g"
    /\ index \in Invocations
    /\ gpuProgress[index].pc < P2GStatements
    /\ LET me == gpuProgress[index]
           weight == IF gpuKernel.mode = "flip" THEN 1 ELSE me.mass
       IN  CASE me.pc = 0 ->
                  /\ gpuProgress' = [gpuProgress EXCEPT ![index] =
                        [pc |-> 1,
                         flat |-> flatCell(gpuParticles.Pos[index], KernelOptions),
                         mass |-> IF gpuKernel.mode = "flip" THEN 1
                                  ELSE MassBuffer[index],
                         vel |-> gpuParticles.Vel[index]]]
                  /\ UNCHANGED <<gpuParticles, gpuGrid>>
             [] me.pc = 1 ->
                  /\ AddToMass(me.flat, weight)
                  /\ gpuProgress' = [gpuProgress EXCEPT ![index].pc = 2]
             [] me.pc = 2 ->
                  /\ gpuGrid' = [gpuGrid EXCEPT !.U[me.flat] = @ + me.vel[1] * weight]
                  /\ gpuProgress' = [gpuProgress EXCEPT ![index].pc = 3]
                  /\ UNCHANGED gpuParticles
             [] me.pc = 3 ->
                  /\ gpuGrid' = [gpuGrid EXCEPT !.V[me.flat] = @ + me.vel[2] * weight]
                  /\ gpuProgress' = [gpuProgress EXCEPT ![index].pc = 4]
                  /\ UNCHANGED gpuParticles
             [] me.pc = 4 ->
                  /\ gpuGrid' = [gpuGrid EXCEPT !.W[me.flat] = @ + me.vel[3] * weight]
                  /\ gpuProgress' = [gpuProgress EXCEPT ![index].pc = 5]
                  /\ UNCHANGED gpuParticles
    /\ UNCHANGED <<gpuKernel, gpuPass, gpuExecutes>>
    /\ KernelFrame

\* every invocation of the dispatch in flight has finished
GridClearDone == \A e \in Elements : gpuProgress[e].pc = 1
P2GDone == \A i \in Invocations : gpuProgress[i].pc = P2GStatements

\* the next dispatch starts once the writes of the one before are complete
StartP2G ==
    /\ KernelPasses[gpuPass] = "gridClearNode"
    /\ GridClearDone
    /\ gpuPass' = gpuPass + 1
    /\ gpuProgress' = [e \in Elements |-> NotStarted]
    /\ UNCHANGED <<gpuKernel, gpuParticles, gpuGrid, gpuExecutes>>
    /\ KernelFrame

\* the passes after P2G write Pos and Vel (G2P, reseed, contacts); their
\* results are any of the positions and velocities above
AfterP2G ==
    /\ KernelPasses[gpuPass] = "p2g"
    /\ P2GDone
    /\ \E pos \in [Invocations -> KernelPositions], vel \in KernelVelocities :
         gpuParticles' = [gpuParticles EXCEPT !.Pos = pos,
                                              !.Vel = [i \in Invocations |-> vel]]
    /\ gpuPass' = gpuPass + 1
    /\ UNCHANGED <<gpuKernel, gpuGrid, gpuProgress, gpuExecutes>>
    /\ KernelFrame

\* execute() returns; the next execute() starts with the grid clear
NextExecute ==
    /\ KernelPasses[gpuPass] = "afterP2G"
    /\ gpuExecutes + 1 < MaxExecutes
    /\ gpuExecutes' = gpuExecutes + 1
    /\ gpuPass' = 1
    /\ gpuProgress' = [e \in Elements |-> NotStarted]
    /\ UNCHANGED <<gpuKernel, gpuParticles, gpuGrid>>
    /\ KernelFrame

NextKernel ==
    \/ \E index \in Elements : GridClear(index)
    \/ StartP2G
    \/ \E index \in Invocations : P2GStep(index)
    \/ AfterP2G
    \/ NextExecute

SpecKernel == InitKernel /\ [][NextKernel]_vars

RECURSIVE SumOver(_, _)
SumOver(f, indices) ==
    IF indices = {} THEN 0
    ELSE LET k == CHOOSE x \in indices : TRUE
         IN  f[k] + SumOver(f, indices \ {k})

\* the mass each invocation handed to atomicAdd in the P2G pass
Contribution == [i \in Invocations |-> gpuProgress[i].mass]

====
